---------------------------- MODULE Spec2Model ----------------------------
(***************************************************************************)
(* Context-assembly core of the Discovery RAG Agent V2:                    *)
(*   server/app/rag/dynamic_context_selector.py  (DynamicContextSelector)  *)
(*   server/app/rag/hierarchical_indexer.py      (EnhancedRetriever)       *)
(*   server/app/rag/semantic_chunker.py          (SemanticChunker)         *)
(*   server/app/api/main.py                      (flow_simulations)        *)
(*                                                                         *)
(* Each component is modelled by its own group of variables and its own    *)
(* specification; a specification leaves the other groups idle.            *)
(*   SpecAlloc   _allocate_tokens as a function of (B, priorities, t)      *)
(*   SpecFilter  _filter_relevant_sections / _filter_relevant_chunks       *)
(*   SpecRerank  _rerank_results                                           *)
(*   SpecRetrieve  retrieve, one step per await point                      *)
(*   SpecClassify  _classify_intent                                        *)
(*   SpecSelect  select_context, one step per await point                  *)
(*   SpecCore    one request of either kind                                *)
(*   SpecShared  two requests interleaved on one instance                  *)
(*   SpecChunk   SemanticChunker._chunk_section, one step per paragraph    *)
(*   SpecFlow    the flow simulations of server/app/api/main.py            *)
(*   SpecFlowFair  SpecFlow with every ready task run                      *)
(*                                                                         *)
(* Priority weights are carried in hundredths (0.85 is 85).  Texts are     *)
(* carried as sequences of one-character strings where the code parses     *)
(* them, and by their length where the code only measures them.            *)
(***************************************************************************)
EXTENDS Integers, Sequences, FiniteSets, TLC

VARIABLES
    aB, aPri, aT, aOut, aPc,
    fKind, fItems, fReply, fOut, fCalls, fPc,
    rIn, rReply, rOut, rCalls, rPc,
    tTopK, tHits, tReply, tOut, tCalls, tPc,
    qMade, qSelf, qFrames, qLog,
    cReply, cOut, cPc,
    kMaxTokens, kParas, kSection, kNext, kCurrent, kTokens, kChunks, kPc,
    clock, requests, flow_simulations,
    sB, sHasRepo, sObjArg, sChunks, sObjective, sK, sFetched, sGuide,
    sFiltered, sTokens, sAlloc, sBlocks, sResult, sCalls, sPc

allocVars == <<aB, aPri, aT, aOut, aPc>>
filterVars == <<fKind, fItems, fReply, fOut, fCalls, fPc>>
rerankVars == <<rIn, rReply, rOut, rCalls, rPc>>
retrieveVars == <<tTopK, tHits, tReply, tOut, tCalls, tPc>>
sharedVars == <<qMade, qSelf, qFrames, qLog>>
classifyVars == <<cReply, cOut, cPc>>
chunkVars ==
    <<kMaxTokens, kParas, kSection, kNext, kCurrent, kTokens, kChunks, kPc>>
flowVars == <<clock, requests, flow_simulations>>
selVars ==
    <<sB, sHasRepo, sObjArg, sChunks, sObjective, sK, sFetched, sGuide,
      sFiltered, sTokens, sAlloc, sBlocks, sResult, sCalls, sPc>>
vars ==
    <<allocVars, filterVars, rerankVars, retrieveVars, sharedVars,
      classifyVars, chunkVars, flowVars, selVars>>

\* what each component leaves alone
exceptAlloc ==
    <<filterVars, rerankVars, retrieveVars, sharedVars, classifyVars,
      chunkVars, flowVars, selVars>>
exceptFilter ==
    <<allocVars, rerankVars, retrieveVars, sharedVars, classifyVars,
      chunkVars, flowVars, selVars>>
exceptRerank ==
    <<allocVars, filterVars, retrieveVars, sharedVars, classifyVars,
      chunkVars, flowVars, selVars>>
exceptRetrieve ==
    <<allocVars, filterVars, rerankVars, sharedVars, classifyVars,
      chunkVars, flowVars, selVars>>
exceptSelect ==
    <<allocVars, filterVars, rerankVars, retrieveVars, sharedVars,
      classifyVars, chunkVars, flowVars>>
exceptShared ==
    <<allocVars, filterVars, rerankVars, retrieveVars, classifyVars,
      chunkVars, flowVars, selVars>>
exceptClassify ==
    <<allocVars, filterVars, rerankVars, retrieveVars, sharedVars,
      chunkVars, flowVars, selVars>>
exceptChunk ==
    <<allocVars, filterVars, rerankVars, retrieveVars, sharedVars,
      classifyVars, flowVars, selVars>>
exceptFlow ==
    <<allocVars, filterVars, rerankVars, retrieveVars, sharedVars,
      classifyVars, chunkVars, selVars>>

(***************************************************************************)
(* Bounds of the model.                                                    *)
(***************************************************************************)
\* largest token budget handed to the allocator
MaxB == 6
\* largest initial token count of one source handed to the allocator
MaxT == 4
\* longest relevance-filter reply, in characters
MaxReplyLen == 4
\* longest list handed to a relevance filter
MaxItems == 6
\* most passages handed to the reranker
MaxPassages == 3
\* most lines of a rerank reply
MaxLines == 3
\* the two values of max_total_tokens a selector is built with
MinBudget == 4
MaxBudget == 8
\* most paragraphs of a section handed to the chunker
MaxParas == 3
\* most tokens of one paragraph
MaxParaTokens == 5
\* largest max_tokens a chunker is built with
MaxChunkTokens == 4

\* requests to the two POST endpoints, and the last clock second
MaxRequests == 2

MaxClock == 2

(***************************************************************************)
(* Small helpers.                                                          *)
(***************************************************************************)
Range(seq) == {seq[i] : i \in 1..Len(seq)}

RECURSIVE SumOver(_, _)
\* Python sum(d[k] for k in keys)
SumOver(f, keys) ==
    IF keys = <<>> THEN 0 ELSE f[Head(keys)] + SumOver(f, Tail(keys))

(***************************************************************************)
(* The five sources, in the insertion order of the priority dictionaries   *)
(* (the order every loop over priorities / allocation follows).            *)
(***************************************************************************)
Sources ==
    <<"chunks", "product_guidelines", "design_guidelines", "benchmarks",
      "team_objectives">>

SourceSet == Range(Sources)

Objectives == {"informative", "hypothesis", "benchmark", "objectives"}

\* priority_matrix of _get_priorities_by_objective, weights in hundredths
PriorityMatrix ==
    [informative |->
        [chunks |-> 85, product_guidelines |-> 15, design_guidelines |-> 0,
         benchmarks |-> 0, team_objectives |-> 0],
     hypothesis |->
        [chunks |-> 50, product_guidelines |-> 25, design_guidelines |-> 25,
         benchmarks |-> 0, team_objectives |-> 0],
     benchmark |->
        [chunks |-> 50, product_guidelines |-> 15, design_guidelines |-> 25,
         benchmarks |-> 10, team_objectives |-> 0],
     objectives |->
        [chunks |-> 50, product_guidelines |-> 25, design_guidelines |-> 0,
         benchmarks |-> 0, team_objectives |-> 25]]

\* priority_matrix.get(objective, priority_matrix["informative"])
GetPrioritiesByObjective(objective) ==
    IF objective \in Objectives THEN PriorityMatrix[objective]
    ELSE PriorityMatrix["informative"]

(***************************************************************************)
(* int((num / den) * x) in IEEE double arithmetic, num and den being       *)
(* weights in hundredths.  The quotient of two doubles is rounded, so when *)
(* num*x/den is a whole number the product can land just below it and      *)
(* int() then truncates to one less.  FloatShort lists every (num, den, x) *)
(* with x <= 16 where CPython does so, for the quotients the priority      *)
(* vectors of this model can form; everywhere else in that range the       *)
(* result is the exact floor.                                              *)
(***************************************************************************)
FloatShort ==
    {<<30, 40, 4>>, <<15, 75, 5>>, <<15, 40, 8>>, <<30, 40, 8>>,
     <<15, 75, 10>>, <<30, 40, 12>>, <<15, 75, 15>>, <<15, 40, 16>>,
     <<30, 40, 16>>}

IntOfProduct(num, den, x) ==
    IF <<num, den, x>> \in FloatShort THEN (num * x) \div den - 1
    ELSE (num * x) \div den

(***************************************************************************)
(* _allocate_tokens                                                        *)
(***************************************************************************)
\* keys of active_priorities, in dictionary order
ActiveSources(initial_tokens) ==
    SelectSeq(Sources, LAMBDA k : initial_tokens[k] > 0)

\* max(d, key=d.get): the first key, in order, that carries the largest value
MaxKey(keys, priorities) ==
    LET i == CHOOSE i \in 1..Len(keys) :
                /\ \A j \in 1..Len(keys) :
                        priorities[keys[j]] <= priorities[keys[i]]
                /\ \A j \in 1..(i - 1) :
                        priorities[keys[j]] < priorities[keys[i]]
    IN  keys[i]

\* the proportional first pass: int(normalized_priorities[source] * available)
FirstPass(available_tokens, priorities, initial_tokens) ==
    LET active == ActiveSources(initial_tokens)
        total_priority == SumOver(priorities, active)
    IN  [s \in SourceSet |->
            IF initial_tokens[s] > 0
            THEN IntOfProduct(priorities[s], total_priority, available_tokens)
            ELSE 0]

RoundingFixUpSkipped(allocation, available_tokens, priorities, active) ==
    allocation

\* the rounding adjustment, given to the active source of largest priority
RoundingFixUp(allocation, available_tokens, priorities, active) ==
    LET adjustment == available_tokens - SumOver(allocation, Sources)
    IN  IF adjustment # 0 /\ active # <<>>
        THEN [allocation EXCEPT ![MaxKey(active, priorities)] = @ + adjustment]
        ELSE allocation

\* allocation after the first pass and the rounding adjustment
FixedUp(available_tokens, priorities, initial_tokens) ==
    RoundingFixUp(FirstPass(available_tokens, priorities, initial_tokens),
                  available_tokens, priorities,
                  ActiveSources(initial_tokens))

RECURSIVE DistributeSharesExcessKept(_, _, _, _, _)
\* the shares are handed out and the excess is left as it was
DistributeSharesExcessKept(cands, priorities, total, allocation, excess) ==
    IF cands = <<>> THEN [allocation |-> allocation, excess |-> excess]
    ELSE LET c == Head(cands)
             share == IntOfProduct(priorities[c], total, excess)
         IN  DistributeSharesExcessKept(Tail(cands), priorities, total,
                                        [allocation EXCEPT ![c] = @ + share],
                                        excess)

RECURSIVE DistributeShares(_, _, _, _, _)
\* the loop over candidates.items(): each share is taken from what is left
DistributeShares(cands, priorities, total, allocation, excess) ==
    IF cands = <<>> THEN [allocation |-> allocation, excess |-> excess]
    ELSE LET c == Head(cands)
             share == IntOfProduct(priorities[c], total, excess)
         IN  DistributeShares(Tail(cands), priorities, total,
                              [allocation EXCEPT ![c] = @ + share],
                              excess - share)

\* candidates of a clipped source, evaluated after the source was clipped
Candidates(source, allocation, initial_tokens) ==
    SelectSeq(ActiveSources(initial_tokens),
              LAMBDA k : k # source /\ allocation[k] < initial_tokens[k])

ClipSourceDropsExcess(source, allocation, priorities, initial_tokens) ==
    [raised |-> FALSE,
     allocation |-> [allocation EXCEPT ![source] = initial_tokens[source]]]

\* body of "if tokens > initial_tokens[source]"
ClipSource(source, allocation, priorities, initial_tokens) ==
    LET excess == allocation[source] - initial_tokens[source]
        clipped == [allocation EXCEPT ![source] = initial_tokens[source]]
        cands == Candidates(source, clipped, initial_tokens)
        total == SumOver(priorities, cands)
    IN  IF cands = <<>> THEN [raised |-> FALSE, allocation |-> clipped]
        ELSE IF total = 0 THEN [raised |-> TRUE, allocation |-> clipped]
        ELSE LET d == DistributeShares(cands, priorities, total, clipped,
                                       excess)
             IN  [raised |-> FALSE,
                  allocation |->
                    IF d.excess > 0
                    THEN [d.allocation EXCEPT
                            ![MaxKey(cands, priorities)] = @ + d.excess]
                    ELSE d.allocation]

RECURSIVE SnapshotLoop(_, _, _, _, _)
SnapshotLoop(i, snapshot, allocation, priorities, initial_tokens) ==
    IF i > Len(Sources) THEN [raised |-> FALSE, allocation |-> allocation]
    ELSE IF snapshot[Sources[i]] > initial_tokens[Sources[i]]
    THEN LET r == ClipSource(Sources[i],
                             [allocation EXCEPT
                                ![Sources[i]] = snapshot[Sources[i]]],
                             priorities, initial_tokens)
         IN  IF r.raised THEN r
             ELSE SnapshotLoop(i + 1, snapshot, r.allocation, priorities,
                               initial_tokens)
    ELSE SnapshotLoop(i + 1, snapshot, allocation, priorities,
                      initial_tokens)

CapLoopOverSnapshot(i, allocation, priorities, initial_tokens) ==
    SnapshotLoop(i, allocation, allocation, priorities, initial_tokens)

RECURSIVE CapLoop(_, _, _, _)
\* "for source, tokens in allocation.items()": one visit per source, in
\* order, each reading the value the allocation holds when it is reached
CapLoop(i, allocation, priorities, initial_tokens) ==
    IF i > Len(Sources) THEN [raised |-> FALSE, allocation |-> allocation]
    ELSE IF allocation[Sources[i]] > initial_tokens[Sources[i]]
    THEN LET r == ClipSource(Sources[i], allocation, priorities,
                             initial_tokens)
         IN  IF r.raised THEN r
             ELSE CapLoop(i + 1, r.allocation, priorities, initial_tokens)
    ELSE CapLoop(i + 1, allocation, priorities, initial_tokens)

RECURSIVE CapLoopClipped(_, _, _, _)
\* the sources whose "if tokens > initial_tokens[source]" branch the loop
\* takes
CapLoopClipped(i, allocation, priorities, initial_tokens) ==
    IF i > Len(Sources) THEN {}
    ELSE IF allocation[Sources[i]] > initial_tokens[Sources[i]]
    THEN LET r == ClipSource(Sources[i], allocation, priorities,
                             initial_tokens)
         IN  {Sources[i]} \cup
             (IF r.raised THEN {}
              ELSE CapLoopClipped(i + 1, r.allocation, priorities,
                                  initial_tokens))
    ELSE CapLoopClipped(i + 1, allocation, priorities, initial_tokens)

\* the sources _allocate_tokens clips
ClippedSources(available_tokens, priorities, initial_tokens) ==
    LET active == ActiveSources(initial_tokens)
    IN  IF active = <<>> \/ SumOver(priorities, active) = 0 THEN {}
        ELSE CapLoopClipped(1,
                FixedUp(available_tokens, priorities, initial_tokens),
                priorities, initial_tokens)

\* the result: raised (ZeroDivisionError) or the returned allocation
AllocateTokens(available_tokens, priorities, initial_tokens) ==
    LET active == ActiveSources(initial_tokens)
        zeros == [s \in SourceSet |-> 0]
    IN  IF active = <<>> THEN [raised |-> FALSE, allocation |-> zeros]
        ELSE IF SumOver(priorities, active) = 0
        THEN [raised |-> TRUE, allocation |-> zeros]
        ELSE CapLoop(1,
                     FixedUp(available_tokens, priorities, initial_tokens),
                     priorities, initial_tokens)

(***************************************************************************)
(* Text handling of the reply parsers.  A text is a sequence of            *)
(* one-character strings.                                                  *)
(***************************************************************************)
\* a Python float: a number, carried as an integer in the unit its use
\* states, or the value nan
Float(v) == [nan |-> FALSE, val |-> v]

NaN == [nan |-> TRUE, val |-> 0]

\* x < y on floats: False whenever either side is nan
FloatLess(x, y) == ~x.nan /\ ~y.nan /\ x.val < y.val

Digits == {"0", "1", "2", "3", "4", "5", "6", "7", "8", "9"}

DigitVal(c) ==
    CASE c = "0" -> 0 [] c = "1" -> 1 [] c = "2" -> 2 [] c = "3" -> 3
      [] c = "4" -> 4 [] c = "5" -> 5 [] c = "6" -> 6 [] c = "7" -> 7
      [] c = "8" -> 8 [] c = "9" -> 9

Whitespace == {" ", "\n"}

UpperCase ==
    <<"A", "B", "C", "D", "E", "F", "G", "H", "I", "J", "K", "L", "M", "N",
      "O", "P", "Q", "R", "S", "T", "U", "V", "W", "X", "Y", "Z">>

LowerCase ==
    <<"a", "b", "c", "d", "e", "f", "g", "h", "i", "j", "k", "l", "m", "n",
      "o", "p", "q", "r", "s", "t", "u", "v", "w", "x", "y", "z">>

LowerChar(c) ==
    IF \E i \in 1..Len(UpperCase) : UpperCase[i] = c
    THEN LowerCase[CHOOSE i \in 1..Len(UpperCase) : UpperCase[i] = c]
    ELSE c

\* str.lower()
Lower(s) == [i \in 1..Len(s) |-> LowerChar(s[i])]

RECURSIVE LStrip(_)
LStrip(s) ==
    IF s # <<>> /\ Head(s) \in Whitespace THEN LStrip(Tail(s)) ELSE s

RECURSIVE RStrip(_)
RStrip(s) ==
    IF s # <<>> /\ s[Len(s)] \in Whitespace
    THEN RStrip(SubSeq(s, 1, Len(s) - 1)) ELSE s

\* str.strip()
Strip(s) == RStrip(LStrip(s))

RECURSIVE Split(_, _)
\* str.split(sep): the text itself, in one part, when sep does not occur
Split(s, sep) ==
    IF \E i \in 1..Len(s) : s[i] = sep
    THEN LET i == CHOOSE i \in 1..Len(s) :
                    s[i] = sep /\ \A j \in 1..(i - 1) : s[j] # sep
         IN  <<SubSeq(s, 1, i - 1)>> \o Split(SubSeq(s, i + 1, Len(s)), sep)
    ELSE <<s>>

RECURSIVE Decimal(_)
Decimal(ds) ==
    IF ds = <<>> THEN 0
    ELSE 10 * Decimal(SubSeq(ds, 1, Len(ds) - 1)) + DigitVal(ds[Len(ds)])

\* int(text): surrounding whitespace, an optional sign, one or more digits;
\* anything else is a ValueError (ok = FALSE)
ParseInt(text) ==
    LET t == Strip(text)
        neg == t # <<>> /\ Head(t) = "-"
        ds == IF neg THEN Tail(t) ELSE t
    IN  IF ds # <<>> /\ \A i \in 1..Len(ds) : ds[i] \in Digits
        THEN [ok |-> TRUE, val |-> IF neg THEN 0 - Decimal(ds) ELSE Decimal(ds)]
        ELSE [ok |-> FALSE, val |-> 0]

(***************************************************************************)
(* _filter_relevant_sections and _filter_relevant_chunks: the same reply   *)
(* parser, behind different skip conditions.                               *)
(***************************************************************************)
\* a list of at most this many chunks is returned without being filtered
ChunkFilterSkip == 5

RECURSIVE ParseIndicesInBounds(_, _, _)
\* an index outside the list ends the loop as a part that is no integer does
ParseIndicesInBounds(parts, n, relevant_indices) ==
    IF parts = <<>> THEN [error |-> FALSE, indices |-> relevant_indices]
    ELSE LET p == ParseInt(Strip(Head(parts)))
             idx == p.val - 1
         IN  IF ~p.ok \/ idx < 0 \/ idx >= n
             THEN [error |-> TRUE, indices |-> relevant_indices]
             ELSE ParseIndicesInBounds(Tail(parts), n,
                                       Append(relevant_indices, idx))

RECURSIVE ParseIndices(_, _, _)
\* the loop over split(","): 0-based indices kept so far, until a part
\* raises ValueError
ParseIndices(parts, n, relevant_indices) ==
    IF parts = <<>> THEN [error |-> FALSE, indices |-> relevant_indices]
    ELSE LET p == ParseInt(Strip(Head(parts)))
             idx == p.val - 1
         IN  IF ~p.ok THEN [error |-> TRUE, indices |-> relevant_indices]
             ELSE ParseIndices(Tail(parts), n,
                               IF 0 <= idx /\ idx < n
                               THEN Append(relevant_indices, idx)
                               ELSE relevant_indices)

\* list(range(n))
AllIndices(n) == [i \in 1..n |-> i - 1]

RelevantIndicesKeepParsed(reply, n) ==
    IF Strip(reply) = <<"0">> THEN <<>>
    ELSE ParseIndices(Split(Strip(reply), ","), n, <<>>).indices

RelevantIndicesNoneIsError(reply, n) ==
    LET r == ParseIndices(Split(Strip(reply), ","), n, <<>>)
    IN  IF r.error \/ Strip(reply) = <<"0">> THEN AllIndices(n) ELSE r.indices

\* relevant_indices after the try / except ValueError
RelevantIndices(reply, n) ==
    LET str == Strip(reply)
    IN  IF str = <<"0">> THEN <<>>
        ELSE LET r == ParseIndices(Split(str, ","), n, <<>>)
             IN  IF r.error THEN AllIndices(n) ELSE r.indices

\* [items[i] for i in relevant_indices]
PickItems(items, relevant_indices) ==
    [k \in 1..Len(relevant_indices) |-> items[relevant_indices[k] + 1]]

\* the parsing tail shared by both filters
FilterByReply(items, reply) ==
    PickItems(items, RelevantIndices(reply, Len(items)))

SkipChunksBelow(chunks) == Len(chunks) < ChunkFilterSkip

\* "if len(chunks) <= 5: return chunks"
SkipChunks(chunks) == Len(chunks) <= ChunkFilterSkip

\* "if not sections: return []"
SkipSections(sections) == sections = <<>>

SkipFilter(kind, items) ==
    IF kind = "chunks" THEN SkipChunks(items) ELSE SkipSections(items)

(***************************************************************************)
(* _rerank_results.  Scores are carried in tenths (7.5 is 75), similarity  *)
(* in tenths (0.5 is 5) and combined_score in thousandths:                 *)
(*   0.3 * similarity + 0.7 * (score / 10)  =  (30*sim10 + 7*score10)/1000 *)
(***************************************************************************)
\* float(text) on the texts this model carries: surrounding whitespace, an
\* optional sign, then either digits with at most one point and at least
\* one digit, or the word nan in any letter case; anything else is a
\* ValueError.  A number is kept to its first fractional digit, which is all
\* the lines of this model carry.
ParseFloat(text) ==
    LET t == Strip(text)
        neg == t # <<>> /\ Head(t) = "-"
        body == IF neg THEN Tail(t) ELSE t
        parts == Split(body, ".")
        whole == parts[1]
        frac == IF Len(parts) > 1 THEN parts[2] ELSE <<>>
        digits == whole \o frac
        val10 == 10 * Decimal(whole)
                    + (IF frac = <<>> THEN 0 ELSE DigitVal(frac[1]))
    IN  IF Lower(body) = <<"n", "a", "n">>
        THEN [ok |-> TRUE, val |-> NaN]
        ELSE IF /\ Len(parts) <= 2
                /\ digits # <<>>
                /\ \A i \in 1..Len(digits) : digits[i] \in Digits
        THEN [ok |-> TRUE, val |-> Float(IF neg THEN 0 - val10 ELSE val10)]
        ELSE [ok |-> FALSE, val |-> Float(0)]

RECURSIVE ParseScores(_)
\* the loop over scores_text.split('\n'): lines that are no number are skipped
ParseScores(lines) ==
    IF lines = <<>> THEN <<>>
    ELSE LET p == ParseFloat(Strip(Head(lines)))
         IN  (IF p.ok THEN <<p.val>> ELSE <<>>) \o ParseScores(Tail(lines))

\* scores.extend([0] * (len(initial_results) - len(scores)))
PadScores(scores, n) ==
    IF Len(scores) < n
    THEN scores \o [i \in 1..(n - Len(scores)) |-> Float(0)]
    ELSE scores

\* 0.3 * similarity_score + 0.7 * (score / 10), in thousandths
CombinedScore(similarity, score) ==
    IF score.nan THEN NaN ELSE Float(30 * similarity + 7 * score.val)

ScoreResultsZip(initial_results, scores) ==
    [i \in 1..(IF Len(scores) < Len(initial_results)
               THEN Len(scores) ELSE Len(initial_results)) |->
        [id |-> initial_results[i].id,
         similarity_score |-> initial_results[i].similarity_score,
         rerank_score |-> scores[i],
         combined_score |->
            CombinedScore(initial_results[i].similarity_score, scores[i])]]

\* "for i, result in enumerate(initial_results)": every passage gets its score
ScoreResults(initial_results, scores) ==
    [i \in 1..Len(initial_results) |->
        IF i <= Len(scores)
        THEN [id |-> initial_results[i].id,
              similarity_score |-> initial_results[i].similarity_score,
              rerank_score |-> scores[i],
              combined_score |->
                CombinedScore(initial_results[i].similarity_score, scores[i])]
        ELSE [id |-> initial_results[i].id,
              similarity_score |-> initial_results[i].similarity_score,
              rerank_score |-> Float(0),
              combined_score |->
                CombinedScore(initial_results[i].similarity_score, Float(0))]]

\* x["combined_score"] < y["combined_score"], the only comparison sorted()
\* makes
KeyLess(x, y) == FloatLess(x.combined_score, y.combined_score)

\* list.reverse()
Reverse(seq) == [i \in 1..Len(seq) |-> seq[Len(seq) + 1 - i]]

\* the run a list of two or more elements starts with: strictly descending
\* when its second element is less than its first, otherwise non-descending
RunDescends(a) == KeyLess(a[2], a[1])

RunLength(a) ==
    CHOOSE r \in 2..Len(a) :
        /\ \A j \in 3..r : KeyLess(a[j], a[j - 1]) = RunDescends(a)
        /\ r = Len(a) \/ KeyLess(a[r + 1], a[r]) # RunDescends(a)

RECURSIVE BinaryPlace(_, _, _, _)
\* the binary search of the insertion sort: where pivot goes among the
\* sorted elements a[l+1..r], behind every element it is not less than
BinaryPlace(a, pivot, l, r) ==
    IF l >= r THEN l
    ELSE LET p == l + ((r - l) \div 2)
         IN  IF KeyLess(pivot, a[p + 1])
             THEN BinaryPlace(a, pivot, l, p)
             ELSE BinaryPlace(a, pivot, p + 1, r)

RECURSIVE BinarySort(_, _)
\* binary insertion sort of a, whose first start - 1 elements are sorted
BinarySort(a, start) ==
    IF start > Len(a) THEN a
    ELSE LET l == BinaryPlace(a, a[start], 0, start - 1)
         IN  BinarySort(SubSeq(a, 1, l) \o <<a[start]>>
                            \o SubSeq(a, l + 1, start - 1)
                            \o SubSeq(a, start + 1, Len(a)),
                        start + 1)

\* list.sort() of a list below 64 elements: the leading run, reversed when
\* it descends, then binary insertion of the rest
ListSort(a) ==
    IF Len(a) < 2 THEN a
    ELSE LET r == RunLength(a)
             run == IF RunDescends(a)
                    THEN Reverse(SubSeq(a, 1, r)) \o SubSeq(a, r + 1, Len(a))
                    ELSE a
         IN  BinarySort(run, r + 1)

\* sorted(initial_results, key=combined_score, reverse=True): the list is
\* reversed, sorted upwards and reversed again, which puts numbers in
\* descending order with equal keys in their original order
SortedDesc(results) == Reverse(ListSort(Reverse(results)))

RerankByReplyZip(initial_results, reply) ==
    SortedDesc(ScoreResultsZip(initial_results,
                               ParseScores(Split(Strip(reply), "\n"))))

\* everything after the completion call
RerankByReply(initial_results, reply) ==
    LET scores == PadScores(ParseScores(Split(Strip(reply), "\n")),
                            Len(initial_results))
    IN  SortedDesc(ScoreResults(initial_results, scores))

(***************************************************************************)
(* EnhancedRetriever.retrieve                                              *)
(***************************************************************************)
\* default of rerank_top_k
RerankTopK == 7

\* seq[:k] for k >= 0
Take(seq, k) == SubSeq(seq, 1, IF k < Len(seq) THEN k ELSE Len(seq))

RerankAlwaysCalls(initial_results) == TRUE

\* "if not initial_results: return []" not taken
RerankNeedsCall(initial_results) == initial_results # <<>>

\* final_results of retrieve, given the recalled passages and the reply
RetrieveByReply(initial_results, reply, rerank_top_k) ==
    Take(RerankByReply(initial_results, reply), rerank_top_k)

(***************************************************************************)
(* select_context and the steps it awaits.  Where the code only measures a *)
(* text, the text is carried by its length in characters: a list of        *)
(* sections or chunks is the sequence of their lengths, and a block of the *)
(* context is either the join of such a list or a summarization reply.     *)
(***************************************************************************)
\* valid_intents, spelled out
IntentChars ==
    [informative |-> <<"i", "n", "f", "o", "r", "m", "a", "t", "i", "v", "e">>,
     hypothesis |-> <<"h", "y", "p", "o", "t", "h", "e", "s", "i", "s">>,
     benchmark |-> <<"b", "e", "n", "c", "h", "m", "a", "r", "k">>,
     objectives |-> <<"o", "b", "j", "e", "c", "t", "i", "v", "e", "s">>]

ClassifyIntentRaw(reply) ==
    LET intent == Strip(reply)
    IN  IF \E o \in Objectives : IntentChars[o] = intent
        THEN CHOOSE o \in Objectives : IntentChars[o] = intent
        ELSE "informative"

\* _classify_intent, after the completion call
ClassifyIntent(reply) ==
    LET intent == Lower(Strip(reply))
    IN  IF \E o \in Objectives : IntentChars[o] = intent
        THEN CHOOSE o \in Objectives : IntentChars[o] = intent
        ELSE "informative"

\* selection_matrix of _select_relevant_sources
SelectionMatrix ==
    [informative |->
        [chunks |-> TRUE, product_guidelines |-> TRUE,
         design_guidelines |-> FALSE, benchmarks |-> FALSE,
         team_objectives |-> FALSE],
     hypothesis |->
        [chunks |-> TRUE, product_guidelines |-> TRUE,
         design_guidelines |-> TRUE, benchmarks |-> TRUE,
         team_objectives |-> FALSE],
     benchmark |->
        [chunks |-> TRUE, product_guidelines |-> TRUE,
         design_guidelines |-> TRUE, benchmarks |-> TRUE,
         team_objectives |-> FALSE],
     objectives |->
        [chunks |-> TRUE, product_guidelines |-> TRUE,
         design_guidelines |-> FALSE, benchmarks |-> FALSE,
         team_objectives |-> TRUE]]

SelectRelevantSourcesWidest(objective) ==
    IF objective \in Objectives THEN SelectionMatrix[objective]
    ELSE SelectionMatrix["hypothesis"]

\* selection_matrix.get(objective, selection_matrix["informative"])
SelectRelevantSources(objective) ==
    IF objective \in Objectives THEN SelectionMatrix[objective]
    ELSE SelectionMatrix["informative"]

\* the four guideline sources, in the order select_context fetches them
GuidelineSources == SubSeq(Sources, 2, 5)

GuidelineSet == Range(GuidelineSources)

\* the guideline_type select_context asks the repository for
GuidelineType ==
    [product_guidelines |-> "product", design_guidelines |-> "design",
     benchmarks |-> "benchmark", team_objectives |-> "objectives"]

RECURSIVE SumSeq(_)
SumSeq(seq) == IF seq = <<>> THEN 0 ELSE Head(seq) + SumSeq(Tail(seq))

\* len("\n\n".join(parts)), and 0 for the empty list
JoinLen(parts) ==
    IF parts = <<>> THEN 0 ELSE SumSeq(parts) + 2 * (Len(parts) - 1)

\* _count_tokens on a text of len characters
CountTokens(len) == IF len = 0 THEN 0 ELSE len \div 4

\* the joined text of a list
Text(parts) ==
    [llm |-> FALSE, parts |-> parts, len |-> JoinLen(parts),
     raw |-> JoinLen(parts)]

EmptyText == Text(<<>>)

\* a summarization reply of raw characters, len of them left by strip();
\* an empty reply is the empty text
Summary(reply) ==
    IF reply.len + reply.pad = 0 THEN EmptyText
    ELSE [llm |-> TRUE, parts |-> <<>>, len |-> reply.len,
          raw |-> reply.len + reply.pad]

\* the list each source's text is joined from
SourceParts(s, chunks, guidelines) ==
    IF s = "chunks" THEN chunks ELSE guidelines[s]

\* initial_tokens of _compress_context
InitialTokens(chunks, guidelines) ==
    [s \in SourceSet |->
        CountTokens(JoinLen(SourceParts(s, chunks, guidelines)))]

TotalTokensRequested(blocks) == SumOver(sAlloc, Sources)

\* total_tokens of the compressed blocks
TotalTokens(blocks) ==
    SumOver([s \in SourceSet |-> CountTokens(blocks[s].len)], Sources)

(***************************************************************************)
(* SemanticChunker._chunk_section.  A paragraph is carried by the number   *)
(* of tokens the tokenizer gives it, a chunk by the positions of the       *)
(* paragraphs joined into it.  The tokens of a joined text are those of    *)
(* its paragraphs plus at most one for each "\n\n" between them (the       *)
(* tokenizer may merge a separator into the punctuation before it).        *)
(***************************************************************************)
\* len(self.tokenizer.encode(p)) summed over the paragraphs of a chunk
ParaTokens(paras, chunk) == SumSeq([i \in 1..Len(chunk) |-> paras[chunk[i]]])

\* the fewest and the most tokens of "\n\n".join(paragraphs)
JoinedAtLeast(paras) == SumSeq(paras)

JoinedAtMost(paras) == SumSeq(paras) + (Len(paras) - 1)

\* "if len(tokens) <= self.max_tokens": the section is kept whole
KeptWhole(section_tokens, max_tokens) == section_tokens <= max_tokens

\* "if current_tokens + len(para_tokens) > self.max_tokens and current_chunk"
ChunkIsFull(current_tokens, para_tokens, max_tokens, current_chunk) ==
    current_tokens + para_tokens > max_tokens /\ current_chunk # <<>>

\* current_chunk[max(0, len(current_chunk) - 1):], the paragraphs carried
\* over into the next chunk
Overlap(current_chunk) ==
    LET overlap_start ==
            IF Len(current_chunk) - 1 > 0 THEN Len(current_chunk) - 1 ELSE 0
    IN  SubSeq(current_chunk, overlap_start + 1, Len(current_chunk))

(***************************************************************************)
(* An external call that raises.  No try block of the core encloses an     *)
(* external call (the only handlers catch ValueError around int() and      *)
(* float()), so the exception leaves the request.                          *)
(***************************************************************************)
AfterCallErrorRetry(awaiting) == awaiting

\* where a request is after the call it awaited has raised
AfterCallError(awaiting) == "failed"

\* the call record once a call has raised: which call, and what had been
\* issued by then
WithFailure(calls, call) ==
    [calls EXCEPT !.failed = Append(@, [call |-> call, issued |-> calls])]

(***************************************************************************)
(* The state of a component that a specification does not exercise.        *)
(***************************************************************************)
NoResult == [raised |-> FALSE, allocation |-> [s \in SourceSet |-> 0]]

AllocIdle ==
    /\ aB = 0
    /\ aPri = PriorityMatrix["informative"]
    /\ aT = [s \in SourceSet |-> 0]
    /\ aOut = NoResult
    /\ aPc = "idle"

FilterIdle ==
    /\ fKind = "none"
    /\ fItems = <<>>
    /\ fReply = <<>>
    /\ fOut = <<>>
    /\ fCalls = 0
    /\ fPc = "idle"

RerankIdle ==
    /\ rIn = <<>>
    /\ rReply = <<>>
    /\ rOut = <<>>
    /\ rCalls = 0
    /\ rPc = "idle"

\* the external calls retrieve has issued so far
NoRetrieveCalls ==
    [embedding |-> 0, query |-> 0, parent |-> 0, completion |-> 0,
     failed |-> <<>>]

RetrieveIdle ==
    /\ tTopK = 0
    /\ tHits = <<>>
    /\ tReply = <<>>
    /\ tOut = <<>>
    /\ tCalls = NoRetrieveCalls
    /\ tPc = "idle"

ChunkIdle ==
    /\ kMaxTokens = 0
    /\ kParas = <<>>
    /\ kSection = 0
    /\ kNext = 0
    /\ kCurrent = <<>>
    /\ kTokens = 0
    /\ kChunks = <<>>
    /\ kPc = "idle"

FlowIdle ==
    /\ clock = 0
    /\ requests = <<>>
    /\ flow_simulations = <<>>

ClassifyIdle ==
    /\ cReply = <<>>
    /\ cOut = ""
    /\ cPc = "idle"

SharedIdle ==
    /\ qMade = "none"
    /\ qSelf = "none"
    /\ qFrames = <<>>
    /\ qLog = <<>>

\* the external calls select_context has issued so far
NoCalls ==
    [classify |-> 0, fetch |-> <<>>, filter_sections |-> 0,
     filter_chunks |-> 0, allocate |-> 0, compress |-> <<>>,
     max_tokens |-> <<>>, failed |-> <<>>]

NoContext ==
    [objective |-> "", blocks |-> [s \in SourceSet |-> EmptyText],
     total_tokens |-> 0]

SelectIdle ==
    /\ sB = 0
    /\ sHasRepo = FALSE
    /\ sObjArg = ""
    /\ sChunks = <<>>
    /\ sObjective = ""
    /\ sK = 0
    /\ sFetched = <<>>
    /\ sGuide = [g \in GuidelineSet |-> <<>>]
    /\ sFiltered = <<>>
    /\ sTokens = [s \in SourceSet |-> 0]
    /\ sAlloc = [s \in SourceSet |-> 0]
    /\ sBlocks = [s \in SourceSet |-> EmptyText]
    /\ sResult = NoContext
    /\ sCalls = NoCalls
    /\ sPc = "idle"

(***************************************************************************)
(* SpecAlloc: the allocator applied to every input within the bounds.      *)
(***************************************************************************)
\* a vector with every weight positive, beside the four of the matrix
AllPositiveVector ==
    [chunks |-> 40, product_guidelines |-> 30, design_guidelines |-> 10,
     benchmarks |-> 10, team_objectives |-> 10]

PriorityVectors ==
    {PriorityMatrix[o] : o \in Objectives} \cup {AllPositiveVector}

\* default of max_total_tokens
DefaultMaxTotalTokens == 6000

\* one request at the default budget: a long retrieval and a short product
\* guideline, asked as informative.  Its three products, 0.85 * 6000,
\* 0.15 * 6000 and (0.85 / 0.85) * 400, are whole in double arithmetic.
LargeRequest ==
    [available_tokens |-> DefaultMaxTotalTokens,
     priorities |-> GetPrioritiesByObjective("informative"),
     initial_tokens |->
        [chunks |-> 8000, product_guidelines |-> 500, design_guidelines |-> 0,
         benchmarks |-> 0, team_objectives |-> 0]]

InitAlloc ==
    /\ FilterIdle /\ RerankIdle /\ RetrieveIdle /\ SharedIdle /\ SelectIdle
    /\ ClassifyIdle /\ ChunkIdle /\ FlowIdle
    /\ \/ /\ aB \in 1..MaxB
          /\ aPri \in PriorityVectors
          /\ aT \in [SourceSet -> 0..MaxT]
       \/ /\ aB = LargeRequest.available_tokens
          /\ aPri = LargeRequest.priorities
          /\ aT = LargeRequest.initial_tokens
    /\ aOut = NoResult
    /\ aPc = "call"

AllocateCall ==
    /\ aPc = "call"
    /\ aOut' = AllocateTokens(aB, aPri, aT)
    /\ aPc' = "done"
    /\ UNCHANGED <<aB, aPri, aT, exceptAlloc>>

NextAlloc == AllocateCall

SpecAlloc == InitAlloc /\ [][NextAlloc]_vars

AllocReturned == aPc = "done" /\ ~aOut.raised

(***************************************************************************)
(* SpecFilter: one call of either filter, on a list of distinct items, the *)
(* completion reply being any text within the bounds.                      *)
(***************************************************************************)
ReplyAlphabet == {"0", "1", "2", ",", " ", "x", "-"}

Replies == UNION {[1..n -> ReplyAlphabet] : n \in 0..MaxReplyLen}

InitFilter ==
    /\ AllocIdle /\ RerankIdle /\ RetrieveIdle /\ SharedIdle /\ SelectIdle
    /\ ClassifyIdle /\ ChunkIdle /\ FlowIdle
    /\ fKind \in {"sections", "chunks"}
    /\ \E n \in 0..MaxItems : fItems = [i \in 1..n |-> i]
    /\ fReply = <<>>
    /\ fOut = <<>>
    /\ fCalls = 0
    /\ fPc = "call"

\* the early return: no completion call
FilterSkip ==
    /\ fPc = "call"
    /\ SkipFilter(fKind, fItems)
    /\ fOut' = fItems
    /\ fPc' = "done"
    /\ UNCHANGED <<fKind, fItems, fReply, fCalls, exceptFilter>>

\* await openai_client.chat.completions.create(...)
FilterAsk ==
    /\ fPc = "call"
    /\ ~SkipFilter(fKind, fItems)
    /\ fCalls' = fCalls + 1
    /\ fPc' = "await"
    /\ UNCHANGED <<fKind, fItems, fReply, fOut, exceptFilter>>

\* the reply arrives and is parsed
FilterParse ==
    /\ fPc = "await"
    /\ \E reply \in Replies :
        /\ fReply' = reply
        /\ fOut' = FilterByReply(fItems, reply)
    /\ fPc' = "done"
    /\ UNCHANGED <<fKind, fItems, fCalls, exceptFilter>>

NextFilter == FilterSkip \/ FilterAsk \/ FilterParse

SpecFilter == InitFilter /\ [][NextFilter]_vars

(***************************************************************************)
(* SpecRerank: one call of _rerank_results on up to MaxPassages recalled   *)
(* passages, the reply being up to MaxLines lines joined by newlines.      *)
(***************************************************************************)
\* similarity scores of the recalled passages, in tenths
SimilarityChoices == {0, 5, 10}

\* lines a reply is made of: in range, at the top of the range, negative,
\* a text float() rejects, empty, padded with a fractional digit, and the
\* text nan, which float() accepts
LineChoices ==
    {<<"7">>, <<"1", "0">>, <<"-", "1">>, <<"x">>, <<>>,
     <<" ", "2", ".", "5">>, <<"n", "a", "n">>}

RECURSIVE JoinLines(_)
JoinLines(lines) ==
    IF lines = <<>> THEN <<>>
    ELSE IF Len(lines) = 1 THEN lines[1]
    ELSE lines[1] \o <<"\n">> \o JoinLines(Tail(lines))

RerankReplies ==
    {JoinLines(ls) : ls \in UNION {[1..n -> LineChoices] : n \in 0..MaxLines}}

InitRerank ==
    /\ AllocIdle /\ FilterIdle /\ RetrieveIdle /\ SharedIdle /\ SelectIdle
    /\ ClassifyIdle /\ ChunkIdle /\ FlowIdle
    /\ \E n \in 0..MaxPassages :
        \E sims \in [1..n -> SimilarityChoices] :
            rIn = [i \in 1..n |-> [id |-> i, similarity_score |-> sims[i]]]
    /\ rReply = <<>>
    /\ rOut = <<>>
    /\ rCalls = 0
    /\ rPc = "call"

\* "if not initial_results: return []"
RerankEmpty ==
    /\ rPc = "call"
    /\ rIn = <<>>
    /\ rOut' = <<>>
    /\ rPc' = "done"
    /\ UNCHANGED <<rIn, rReply, rCalls, exceptRerank>>

\* await openai_client.chat.completions.create(...)
RerankAsk ==
    /\ rPc = "call"
    /\ rIn # <<>>
    /\ rCalls' = rCalls + 1
    /\ rPc' = "await"
    /\ UNCHANGED <<rIn, rReply, rOut, exceptRerank>>

\* the reply arrives; scores are parsed, assigned and the passages sorted
RerankScore ==
    /\ rPc = "await"
    /\ \E reply \in RerankReplies :
        /\ rReply' = reply
        /\ rOut' = RerankByReply(rIn, reply)
    /\ rPc' = "done"
    /\ UNCHANGED <<rIn, rCalls, exceptRerank>>

NextRerank == RerankEmpty \/ RerankAsk \/ RerankScore

SpecRerank == InitRerank /\ [][NextRerank]_vars

(***************************************************************************)
(* SpecRetrieve: one retrieve request, one action per stretch of code      *)
(* between two awaits.  The index query and the parent-document lookups    *)
(* are synchronous calls made right after the embedding arrives.  Every    *)
(* external call may also fail, and the exception leaves retrieve.         *)
(***************************************************************************)
\* what the index query returns: up to MaxPassages passages
RecallChoices ==
    UNION {{[i \in 1..n |-> [id |-> i, similarity_score |-> sims[i]]] :
                sims \in [1..n -> SimilarityChoices]} : n \in 0..MaxPassages}

InitRetrieve ==
    /\ AllocIdle /\ FilterIdle /\ RerankIdle /\ SharedIdle /\ SelectIdle
    /\ ClassifyIdle /\ ChunkIdle /\ FlowIdle
    /\ tTopK \in {1, RerankTopK}
    /\ tHits = <<>>
    /\ tReply = <<>>
    /\ tOut = <<>>
    /\ tCalls = NoRetrieveCalls
    /\ tPc = "start"

\* await self._generate_embedding(query)
RetEmbedAsk ==
    /\ tPc = "start"
    /\ tCalls' = [tCalls EXCEPT !.embedding = @ + 1]
    /\ tPc' = "embedding"
    /\ UNCHANGED <<tTopK, tHits, tReply, tOut, exceptRetrieve>>

\* embeddings.create raises
RetEmbedFails ==
    /\ tPc = "embedding"
    /\ tCalls' = WithFailure(tCalls, "embedding")
    /\ tPc' = AfterCallError("embedding")
    /\ UNCHANGED <<tTopK, tHits, tReply, tOut, exceptRetrieve>>

\* the index query raises
RetQueryFails ==
    /\ tPc = "embedding"
    /\ tCalls' = WithFailure([tCalls EXCEPT !.query = @ + 1], "query")
    /\ tPc' = AfterCallError("embedding")
    /\ UNCHANGED <<tTopK, tHits, tReply, tOut, exceptRetrieve>>

\* the index answers, then the lookup of the j-th passage's parent raises
RetParentFails ==
    /\ tPc = "embedding"
    /\ \E hits \in RecallChoices : \E j \in 1..Len(hits) :
        tCalls' = WithFailure([tCalls EXCEPT !.query = @ + 1,
                                             !.parent = @ + j], "parent")
    /\ tPc' = AfterCallError("embedding")
    /\ UNCHANGED <<tTopK, tHits, tReply, tOut, exceptRetrieve>>

\* the index answers with no passage: _rerank_results returns [] at once
RetRecallEmpty ==
    /\ tPc = "embedding"
    /\ \E hits \in RecallChoices :
        /\ ~RerankNeedsCall(hits)
        /\ tHits' = hits
        /\ tCalls' = [tCalls EXCEPT !.query = @ + 1, !.parent = @ + Len(hits)]
    /\ tOut' = Take(<<>>, tTopK)
    /\ tPc' = "done"
    /\ UNCHANGED <<tTopK, tReply, exceptRetrieve>>

\* the index answers with passages, each parent is looked up, and
\* _rerank_results issues its completion call
RetRecall ==
    /\ tPc = "embedding"
    /\ \E hits \in RecallChoices :
        /\ RerankNeedsCall(hits)
        /\ tHits' = hits
        /\ tCalls' = [tCalls EXCEPT !.query = @ + 1, !.parent = @ + Len(hits),
                                    !.completion = @ + 1]
    /\ tPc' = "reranking"
    /\ UNCHANGED <<tTopK, tReply, tOut, exceptRetrieve>>

\* chat.completions.create raises
RetRerankFails ==
    /\ tPc = "reranking"
    /\ tCalls' = WithFailure(tCalls, "completion")
    /\ tPc' = AfterCallError("reranking")
    /\ UNCHANGED <<tTopK, tHits, tReply, tOut, exceptRetrieve>>

\* the rerank reply arrives; retrieve returns reranked_results[:rerank_top_k]
RetReranked ==
    /\ tPc = "reranking"
    /\ \E reply \in RerankReplies :
        /\ tReply' = reply
        /\ tOut' = RetrieveByReply(tHits, reply, tTopK)
    /\ tPc' = "done"
    /\ UNCHANGED <<tTopK, tHits, tCalls, exceptRetrieve>>

NextRetrieve ==
    \/ RetEmbedAsk \/ RetEmbedFails \/ RetQueryFails \/ RetParentFails
    \/ RetRecallEmpty \/ RetRecall \/ RetRerankFails \/ RetReranked

SpecRetrieve == InitRetrieve /\ [][NextRetrieve]_vars

(***************************************************************************)
(* SpecClassify: one call of _classify_intent, the reply being a category  *)
(* token or a text close to one, in any letter case, with or without       *)
(* surrounding blanks and a trailing full stop.                            *)
(***************************************************************************)
UpperChar(c) ==
    IF \E i \in 1..Len(LowerCase) : LowerCase[i] = c
    THEN UpperCase[CHOOSE i \in 1..Len(LowerCase) : LowerCase[i] = c]
    ELSE c

Upper(s) == [i \in 1..Len(s) |-> UpperChar(s[i])]

Capitalized(s) ==
    IF s = <<>> THEN s ELSE <<UpperChar(Head(s))>> \o Tail(s)

\* the category tokens and texts that are none: one character short, one
\* blank inside, two tokens, another word, nothing
ReplyWords ==
    {IntentChars[o] : o \in Objectives} \cup
    {SubSeq(IntentChars[o], 1, Len(IntentChars[o]) - 1) : o \in Objectives}
    \cup
    {<<"b", "e", "n", "c", "h", " ", "m", "a", "r", "k">>,
     IntentChars["hypothesis"] \o <<" ">> \o IntentChars["benchmark"],
     <<"o", "t", "h", "e", "r">>,
     <<>>}

ReplyCases == UNION {{w, Capitalized(w), Upper(w)} : w \in ReplyWords}

ClassifyReplyTexts ==
    {before \o w \o after :
        before \in {<<>>, <<" ">>, <<"\n", " ">>},
        w \in ReplyCases,
        after \in {<<>>, <<" ">>, <<"\n">>, <<".">>}}

InitClassify ==
    /\ AllocIdle /\ FilterIdle /\ RerankIdle /\ RetrieveIdle /\ SharedIdle
    /\ SelectIdle /\ ChunkIdle /\ FlowIdle
    /\ cReply = <<>>
    /\ cOut = ""
    /\ cPc = "call"

\* await openai_client.chat.completions.create(...)
ClassifyAsk ==
    /\ cPc = "call"
    /\ cPc' = "await"
    /\ UNCHANGED <<cReply, cOut, exceptClassify>>

\* the reply arrives and is validated
ClassifyAnswer ==
    /\ cPc = "await"
    /\ \E reply \in ClassifyReplyTexts :
        /\ cReply' = reply
        /\ cOut' = ClassifyIntent(reply)
    /\ cPc' = "done"
    /\ UNCHANGED exceptClassify

NextClassify == ClassifyAsk \/ ClassifyAnswer

SpecClassify == InitClassify /\ [][NextClassify]_vars

(***************************************************************************)
(* SpecSelect: one select_context request on one selector, one action per  *)
(* stretch of code between two awaits.  Every reply of an external call    *)
(* is chosen when it arrives.                                              *)
(***************************************************************************)
\* the objective argument: absent, a category, or a text that is none
ObjectiveArgs == Objectives \cup {"", "HYPOTHESIS"}

\* replies of the classification call
ClassifyReplies ==
    {IntentChars[o] : o \in Objectives} \cup
    {<<" ", "H", "y", "p", "o", "t", "h", "e", "s", "i", "s", "\n">>,
     <<"o", "t", "h", "e", "r">>,
     <<>>}

\* retrieved_chunks: none, one chunk, six chunks (lengths in characters)
ChunkChoices == {<<>>, <<16>>, <<4, 8, 12, 16, 20, 24>>}

\* what the guideline repository returns for one guideline type
RepoChoices == {<<>>, <<3>>, <<8, 20>>}

\* replies of a relevance-filter call
FilterReplyChoices ==
    {<<"0">>, <<"1">>, <<"2", ",", " ", "1">>, <<"x">>}

\* replies of a summarization call asked for at most cap tokens: empty, the
\* longest text of cap tokens with and without a trailing blank, and one
\* token more than asked for
SummaryReplies(cap) ==
    {[len |-> 0, pad |-> 0], [len |-> 4 * cap + 2, pad |-> 1],
     [len |-> 4 * cap + 3, pad |-> 0], [len |-> 4 * cap + 4, pad |-> 0]}

InitSelect ==
    /\ AllocIdle /\ FilterIdle /\ RerankIdle /\ RetrieveIdle /\ SharedIdle
    /\ ClassifyIdle /\ ChunkIdle /\ FlowIdle
    /\ sB \in {MinBudget, MaxBudget}
    /\ sHasRepo \in BOOLEAN
    /\ sObjArg \in ObjectiveArgs
    /\ sChunks \in ChunkChoices
    /\ sObjective = sObjArg
    /\ sK = 0
    /\ sFetched = <<>>
    /\ sGuide = [g \in GuidelineSet |-> <<>>]
    /\ sFiltered = <<>>
    /\ sTokens = [s \in SourceSet |-> 0]
    /\ sAlloc = [s \in SourceSet |-> 0]
    /\ sBlocks = [s \in SourceSet |-> EmptyText]
    /\ sResult = NoContext
    /\ sCalls = NoCalls
    /\ sPc = "start"

\* "if not objective": await self._classify_intent(query)
SelClassifyAsk ==
    /\ sPc = "start"
    /\ sObjArg = ""
    /\ sCalls' = [sCalls EXCEPT !.classify = @ + 1]
    /\ sPc' = "classify"
    /\ UNCHANGED <<sB, sHasRepo, sObjArg, sChunks, sObjective, sK, sFetched,
                   sGuide, sFiltered, sTokens, sAlloc, sBlocks, sResult,
                   exceptSelect>>

\* an explicit objective is used as it is
SelObjectiveGiven ==
    /\ sPc = "start"
    /\ sObjArg # ""
    /\ sObjective' = sObjArg
    /\ sK' = 1
    /\ sPc' = "guidelines"
    /\ UNCHANGED <<sB, sHasRepo, sObjArg, sChunks, sFetched, sGuide,
                   sFiltered, sTokens, sAlloc, sBlocks, sResult, sCalls,
                   exceptSelect>>

\* the classification reply arrives
SelClassified ==
    /\ sPc = "classify"
    /\ \E reply \in ClassifyReplies : sObjective' = ClassifyIntent(reply)
    /\ sK' = 1
    /\ sPc' = "guidelines"
    /\ UNCHANGED <<sB, sHasRepo, sObjArg, sChunks, sFetched, sGuide,
                   sFiltered, sTokens, sAlloc, sBlocks, sResult, sCalls,
                   exceptSelect>>

IncludedAlways(k) == TRUE

\* the include argument of the k-th _get_relevant_guidelines call
Included(k) == SelectRelevantSources(sObjective)[GuidelineSources[k]]

\* where select_context continues after its k-th guideline list
AfterGuideline(k) == IF k = Len(GuidelineSources) THEN "chunks" ELSE "guidelines"

\* "if not include or not self.guidelines_repo: return []"
SelGuidelineExcluded ==
    /\ sPc = "guidelines"
    /\ ~Included(sK) \/ ~sHasRepo
    /\ sGuide' = [sGuide EXCEPT ![GuidelineSources[sK]] = <<>>]
    /\ sPc' = AfterGuideline(sK)
    /\ sK' = sK + 1
    /\ UNCHANGED <<sB, sHasRepo, sObjArg, sChunks, sObjective, sFetched,
                   sFiltered, sTokens, sAlloc, sBlocks, sResult, sCalls,
                   exceptSelect>>

\* await self.guidelines_repo.get_guidelines(guideline_type)
SelGuidelineFetch ==
    /\ sPc = "guidelines"
    /\ Included(sK) /\ sHasRepo
    /\ sCalls' = [sCalls EXCEPT
                    !.fetch = Append(@, GuidelineType[GuidelineSources[sK]])]
    /\ sPc' = "fetching"
    /\ UNCHANGED <<sB, sHasRepo, sObjArg, sChunks, sObjective, sK, sFetched,
                   sGuide, sFiltered, sTokens, sAlloc, sBlocks, sResult,
                   exceptSelect>>

\* the repository answers with no section: _filter_relevant_sections returns
\* [] without a call
SelGuidelineNone ==
    /\ sPc = "fetching"
    /\ \E sections \in RepoChoices : SkipSections(sections)
    /\ sGuide' = [sGuide EXCEPT ![GuidelineSources[sK]] = <<>>]
    /\ sPc' = AfterGuideline(sK)
    /\ sK' = sK + 1
    /\ UNCHANGED <<sB, sHasRepo, sObjArg, sChunks, sObjective, sFetched,
                   sFiltered, sTokens, sAlloc, sBlocks, sResult, sCalls,
                   exceptSelect>>

\* the repository answers with sections: the filter's completion call
SelGuidelineFetched ==
    /\ sPc = "fetching"
    /\ \E sections \in RepoChoices :
        /\ ~SkipSections(sections)
        /\ sFetched' = sections
    /\ sCalls' = [sCalls EXCEPT !.filter_sections = @ + 1]
    /\ sPc' = "filtering"
    /\ UNCHANGED <<sB, sHasRepo, sObjArg, sChunks, sObjective, sK, sGuide,
                   sFiltered, sTokens, sAlloc, sBlocks, sResult,
                   exceptSelect>>

\* the filter's reply arrives
SelSectionsFiltered ==
    /\ sPc = "filtering"
    /\ \E reply \in FilterReplyChoices :
        sGuide' = [sGuide EXCEPT
                    ![GuidelineSources[sK]] = FilterByReply(sFetched, reply)]
    /\ sFetched' = <<>>
    /\ sPc' = AfterGuideline(sK)
    /\ sK' = sK + 1
    /\ UNCHANGED <<sB, sHasRepo, sObjArg, sChunks, sObjective, sFiltered,
                   sTokens, sAlloc, sBlocks, sResult, sCalls, exceptSelect>>

\* _filter_relevant_chunks returns the chunks unfiltered
SelChunksKept ==
    /\ sPc = "chunks"
    /\ SkipChunks(sChunks)
    /\ sFiltered' = sChunks
    /\ sPc' = "compress"
    /\ UNCHANGED <<sB, sHasRepo, sObjArg, sChunks, sObjective, sK, sFetched,
                   sGuide, sTokens, sAlloc, sBlocks, sResult, sCalls,
                   exceptSelect>>

\* _filter_relevant_chunks issues its completion call
SelChunksAsk ==
    /\ sPc = "chunks"
    /\ ~SkipChunks(sChunks)
    /\ sCalls' = [sCalls EXCEPT !.filter_chunks = @ + 1]
    /\ sPc' = "filtering_chunks"
    /\ UNCHANGED <<sB, sHasRepo, sObjArg, sChunks, sObjective, sK, sFetched,
                   sGuide, sFiltered, sTokens, sAlloc, sBlocks, sResult,
                   exceptSelect>>

SelChunksFiltered ==
    /\ sPc = "filtering_chunks"
    /\ \E reply \in FilterReplyChoices :
        sFiltered' = FilterByReply(sChunks, reply)
    /\ sPc' = "compress"
    /\ UNCHANGED <<sB, sHasRepo, sObjArg, sChunks, sObjective, sK, sFetched,
                   sGuide, sTokens, sAlloc, sBlocks, sResult, sCalls,
                   exceptSelect>>

\* the result select_context builds from a compressed context
Context(objective, blocks, total_tokens) ==
    [objective |-> objective, blocks |-> blocks, total_tokens |-> total_tokens]

WithinBudgetStrict(total_initial_tokens, max_total_tokens) ==
    total_initial_tokens < max_total_tokens

\* "if total_initial_tokens <= self.max_total_tokens"
WithinBudget(total_initial_tokens, max_total_tokens) ==
    total_initial_tokens <= max_total_tokens

\* _compress_context when the texts fit the budget: returned as they are
SelUnderBudget ==
    /\ sPc = "compress"
    /\ LET tokens == InitialTokens(sFiltered, sGuide)
           texts == [s \in SourceSet |-> Text(SourceParts(s, sFiltered, sGuide))]
       IN  /\ WithinBudget(SumOver(tokens, Sources), sB)
           /\ sTokens' = tokens
           /\ sBlocks' = texts
           /\ sResult' = Context(sObjective, texts, SumOver(tokens, Sources))
    /\ sPc' = "done"
    /\ UNCHANGED <<sB, sHasRepo, sObjArg, sChunks, sObjective, sK, sFetched,
                   sGuide, sFiltered, sAlloc, sCalls, exceptSelect>>

\* _compress_context over the budget: the allocator returns
SelAllocate ==
    /\ sPc = "compress"
    /\ LET tokens == InitialTokens(sFiltered, sGuide)
           r == AllocateTokens(sB, GetPrioritiesByObjective(sObjective), tokens)
       IN  /\ ~WithinBudget(SumOver(tokens, Sources), sB)
           /\ ~r.raised
           /\ sTokens' = tokens
           /\ sAlloc' = r.allocation
    /\ sCalls' = [sCalls EXCEPT !.allocate = @ + 1]
    /\ sK' = 1
    /\ sPc' = "component"
    /\ UNCHANGED <<sB, sHasRepo, sObjArg, sChunks, sObjective, sFetched,
                   sGuide, sFiltered, sBlocks, sResult, exceptSelect>>

\* _compress_context over the budget: the allocator divides by zero and the
\* exception leaves select_context
SelAllocateRaises ==
    /\ sPc = "compress"
    /\ LET tokens == InitialTokens(sFiltered, sGuide)
           r == AllocateTokens(sB, GetPrioritiesByObjective(sObjective), tokens)
       IN  /\ ~WithinBudget(SumOver(tokens, Sources), sB)
           /\ r.raised
           /\ sTokens' = tokens
    /\ sCalls' = [sCalls EXCEPT !.allocate = @ + 1]
    /\ sPc' = "raised"
    /\ UNCHANGED <<sB, sHasRepo, sObjArg, sChunks, sObjective, sK, sFetched,
                   sGuide, sFiltered, sAlloc, sBlocks, sResult, exceptSelect>>

\* the text of the k-th source
ComponentText(k) == Text(SourceParts(Sources[k], sFiltered, sGuide))

\* a block is asked for whenever the source has text
ComponentWantedByText(k) == ComponentText(k).len > 0

\* "if <text> and token_allocation[<source>] > 0"
ComponentWanted(k) == ComponentText(k).len > 0 /\ sAlloc[Sources[k]] > 0

ComponentFitsBudget(k) == CountTokens(ComponentText(k).len) <= sB

\* "if self._count_tokens(text) <= max_tokens: return text"
ComponentFits(k) == CountTokens(ComponentText(k).len) <= sAlloc[Sources[k]]

\* else: compressed[<source>] = ""
SelComponentEmpty ==
    /\ sPc = "component" /\ sK <= Len(Sources)
    /\ ~ComponentWanted(sK)
    /\ sBlocks' = [sBlocks EXCEPT ![Sources[sK]] = EmptyText]
    /\ sK' = sK + 1
    /\ UNCHANGED <<sB, sHasRepo, sObjArg, sChunks, sObjective, sFetched,
                   sGuide, sFiltered, sTokens, sAlloc, sResult, sCalls, sPc,
                   exceptSelect>>

\* _compress_component returns the text as it is
SelComponentKept ==
    /\ sPc = "component" /\ sK <= Len(Sources)
    /\ ComponentWanted(sK) /\ ComponentFits(sK)
    /\ sBlocks' = [sBlocks EXCEPT ![Sources[sK]] = ComponentText(sK)]
    /\ sK' = sK + 1
    /\ UNCHANGED <<sB, sHasRepo, sObjArg, sChunks, sObjective, sFetched,
                   sGuide, sFiltered, sTokens, sAlloc, sResult, sCalls, sPc,
                   exceptSelect>>

\* "max_tokens=max_tokens" of the summarization call: the allocation
MaxTokensAsked(k) == sAlloc[Sources[k]]

\* _compress_component issues the summarization call, max_tokens = allocation
SelComponentAsk ==
    /\ sPc = "component" /\ sK <= Len(Sources)
    /\ ComponentWanted(sK) /\ ~ComponentFits(sK)
    /\ sCalls' = [sCalls EXCEPT !.compress = Append(@, Sources[sK]),
                                !.max_tokens = Append(@, MaxTokensAsked(sK))]
    /\ sPc' = "summarizing"
    /\ UNCHANGED <<sB, sHasRepo, sObjArg, sChunks, sObjective, sK, sFetched,
                   sGuide, sFiltered, sTokens, sAlloc, sBlocks, sResult,
                   exceptSelect>>

\* the summarization reply arrives and is stripped
SelSummarized ==
    /\ sPc = "summarizing"
    /\ \E reply \in SummaryReplies(sAlloc[Sources[sK]]) :
        sBlocks' = [sBlocks EXCEPT ![Sources[sK]] = Summary(reply)]
    /\ sK' = sK + 1
    /\ sPc' = "component"
    /\ UNCHANGED <<sB, sHasRepo, sObjArg, sChunks, sObjective, sFetched,
                   sGuide, sFiltered, sTokens, sAlloc, sResult, sCalls,
                   exceptSelect>>

\* total_tokens recomputed from the blocks; select_context returns
SelReturn ==
    /\ sPc = "component" /\ sK > Len(Sources)
    /\ sResult' = Context(sObjective, sBlocks, TotalTokens(sBlocks))
    /\ sPc' = "done"
    /\ UNCHANGED <<sB, sHasRepo, sObjArg, sChunks, sObjective, sK, sFetched,
                   sGuide, sFiltered, sTokens, sAlloc, sBlocks, sCalls,
                   exceptSelect>>

\* the positions where select_context awaits an external call
SelectAwaits ==
    {"classify", "fetching", "filtering", "filtering_chunks", "summarizing"}

\* the awaited call raises
SelCallFails ==
    /\ sPc \in SelectAwaits
    /\ sCalls' = WithFailure(sCalls, sPc)
    /\ sPc' = AfterCallError(sPc)
    /\ UNCHANGED <<sB, sHasRepo, sObjArg, sChunks, sObjective, sK, sFetched,
                   sGuide, sFiltered, sTokens, sAlloc, sBlocks, sResult,
                   exceptSelect>>

NextSelect ==
    \/ SelClassifyAsk \/ SelObjectiveGiven \/ SelClassified
    \/ SelGuidelineExcluded \/ SelGuidelineFetch \/ SelGuidelineNone
    \/ SelGuidelineFetched \/ SelSectionsFiltered
    \/ SelChunksKept \/ SelChunksAsk \/ SelChunksFiltered
    \/ SelUnderBudget \/ SelAllocate \/ SelAllocateRaises
    \/ SelComponentEmpty \/ SelComponentKept \/ SelComponentAsk
    \/ SelSummarized \/ SelReturn \/ SelCallFails

SpecSelect == InitSelect /\ [][NextSelect]_vars

(***************************************************************************)
(* SpecCore: one request of either kind, a select_context call or a        *)
(* retrieve call.                                                          *)
(***************************************************************************)
InitCore == InitSelect \/ InitRetrieve

NextCore == NextSelect \/ NextRetrieve

SpecCore == InitCore /\ [][NextCore]_vars

(***************************************************************************)
(* SpecShared: two requests on one instance, interleaved at their awaits.  *)
(* A request is a frame of local variables; between two awaits it runs     *)
(* alone, reading the instance and its own frame.  Both requests are       *)
(* select_context calls on one DynamicContextSelector, or both are         *)
(* retrieve calls on one EnhancedRetriever.                                *)
(***************************************************************************)
\* the fields __init__ sets on a selector
Selector(guidelines_repository, max_total_tokens) ==
    [guidelines_repo |-> guidelines_repository,
     max_total_tokens |-> max_total_tokens]

\* the fields __init__ sets on a retriever
Retriever == [document_class |-> "Document", chunk_class |-> "Chunk"]

\* the locals of a select_context call that has not run yet
SelectFrame(objective, retrieved_chunks) ==
    [kind |-> "select", pc |-> "start", objective_arg |-> objective,
     chunks |-> retrieved_chunks, objective |-> objective, k |-> 0,
     fetched |-> <<>>, guide |-> [g \in GuidelineSet |-> <<>>],
     filtered |-> <<>>, alloc |-> [s \in SourceSet |-> 0],
     blocks |-> [s \in SourceSet |-> EmptyText], result |-> NoContext]

\* the locals of a retrieve call that has not run yet
RetrieveFrame(rerank_top_k) ==
    [kind |-> "retrieve", pc |-> "start", rerank_top_k |-> rerank_top_k,
     hits |-> <<>>, result |-> <<>>]

RECURSIVE AtComponent(_, _)
\* _compress_context from its k-th source on, up to the next summarization
\* call or the return
AtComponent(self, f) ==
    IF f.k > Len(Sources)
    THEN [f EXCEPT !.pc = "done",
                   !.result = Context(f.objective, f.blocks,
                                      TotalTokens(f.blocks))]
    ELSE LET source == Sources[f.k]
             text == Text(SourceParts(source, f.filtered, f.guide))
         IN  IF ~(text.len > 0 /\ f.alloc[source] > 0)
             THEN AtComponent(self, [f EXCEPT !.blocks[source] = EmptyText,
                                              !.k = @ + 1])
             ELSE IF CountTokens(text.len) <= f.alloc[source]
             THEN AtComponent(self, [f EXCEPT !.blocks[source] = text,
                                              !.k = @ + 1])
             ELSE [f EXCEPT !.pc = "summarizing"]

\* _compress_context from its start
AtCompress(self, f) ==
    LET tokens == InitialTokens(f.filtered, f.guide)
        texts ==
            [s \in SourceSet |-> Text(SourceParts(s, f.filtered, f.guide))]
        r == AllocateTokens(self.max_total_tokens,
                            GetPrioritiesByObjective(f.objective), tokens)
    IN  IF WithinBudget(SumOver(tokens, Sources), self.max_total_tokens)
        THEN [f EXCEPT !.pc = "done", !.blocks = texts,
                       !.result = Context(f.objective, texts,
                                          SumOver(tokens, Sources))]
        ELSE IF r.raised THEN [f EXCEPT !.pc = "raised"]
        ELSE AtComponent(self, [f EXCEPT !.alloc = r.allocation, !.k = 1])

\* _filter_relevant_chunks from its start
AtChunks(self, f) ==
    IF SkipChunks(f.chunks)
    THEN AtCompress(self, [f EXCEPT !.filtered = f.chunks])
    ELSE [f EXCEPT !.pc = "filtering_chunks"]

RECURSIVE AtGuidelines(_, _)
\* select_context from its k-th _get_relevant_guidelines call on
AtGuidelines(self, f) ==
    IF f.k > Len(GuidelineSources) THEN AtChunks(self, f)
    ELSE IF /\ SelectRelevantSources(f.objective)[GuidelineSources[f.k]]
            /\ self.guidelines_repo
    THEN [f EXCEPT !.pc = "fetching"]
    ELSE AtGuidelines(self, [f EXCEPT !.guide[GuidelineSources[f.k]] = <<>>,
                                      !.k = @ + 1])

\* a request runs from its call to its first await
Begin(self, f) ==
    IF f.kind = "retrieve" THEN [f EXCEPT !.pc = "embedding"]
    ELSE IF f.objective_arg = "" THEN [f EXCEPT !.pc = "classify"]
    ELSE AtGuidelines(self, [f EXCEPT !.objective = f.objective_arg,
                                      !.k = 1])

\* a request runs from the await that reply answers to its next await
Resume(self, f, reply) ==
    CASE f.pc = "embedding" ->
            IF RerankNeedsCall(reply)
            THEN [f EXCEPT !.hits = reply, !.pc = "reranking"]
            ELSE [f EXCEPT !.hits = reply, !.pc = "done",
                           !.result = Take(<<>>, f.rerank_top_k)]
      [] f.pc = "reranking" ->
            [f EXCEPT !.pc = "done",
                      !.result = RetrieveByReply(f.hits, reply,
                                                 f.rerank_top_k)]
      [] f.pc = "classify" ->
            AtGuidelines(self, [f EXCEPT !.objective = ClassifyIntent(reply),
                                         !.k = 1])
      [] f.pc = "fetching" ->
            IF SkipSections(reply)
            THEN AtGuidelines(self,
                    [f EXCEPT !.guide[GuidelineSources[f.k]] = <<>>,
                              !.k = @ + 1])
            ELSE [f EXCEPT !.fetched = reply, !.pc = "filtering"]
      [] f.pc = "filtering" ->
            AtGuidelines(self,
                [f EXCEPT !.guide[GuidelineSources[f.k]] =
                                FilterByReply(f.fetched, reply),
                          !.fetched = <<>>, !.k = @ + 1])
      [] f.pc = "filtering_chunks" ->
            AtCompress(self,
                [f EXCEPT !.filtered = FilterByReply(f.chunks, reply)])
      [] f.pc = "summarizing" ->
            AtComponent(self, [f EXCEPT !.blocks[Sources[f.k]] =
                                            Summary(reply),
                                        !.k = @ + 1])

InstanceSpendsBudget(self, f) ==
    IF f.kind = "select" /\ f.pc = "done"
    THEN [self EXCEPT !.max_total_tokens = @ - f.result.total_tokens]
    ELSE self

\* the instance after a request ran up to an await: outside __init__ no
\* field of self is assigned
InstanceAfter(self, f) == self

\* the instances the two requests may share
SharedInstances ==
    {Selector(TRUE, MinBudget), Selector(FALSE, MaxBudget), Retriever}

\* the calls a request on the instance may be
SharedCalls(self) ==
    IF self = Retriever
    THEN {RetrieveFrame(k) : k \in {1, RerankTopK}}
    ELSE {SelectFrame(o, c) :
            o \in {"", "objectives"}, c \in {<<16>>, <<4, 8, 12, 16, 20, 24>>}}

\* what the call a frame awaits may answer
AwaitChoices(f) ==
    CASE f.pc = "embedding" ->
            {hits \in RecallChoices : Len(hits) <= 2}
      [] f.pc = "reranking" -> {<<"7">>, <<"x", "\n", "1", "0">>}
      [] f.pc = "classify" ->
            {<<" ", "I", "n", "f", "o", "r", "m", "a", "t", "i", "v", "e">>}
      [] f.pc = "fetching" -> {<<>>, <<8, 20>>}
      [] f.pc \in {"filtering", "filtering_chunks"} -> {<<"1">>, <<"x">>}
      [] f.pc = "summarizing" ->
            {[len |-> 4 * f.alloc[Sources[f.k]] + 2, pad |-> 1],
             [len |-> 4 * f.alloc[Sources[f.k]] + 4, pad |-> 0]}
      [] OTHER -> {}

InitShared ==
    /\ AllocIdle /\ FilterIdle /\ RerankIdle /\ RetrieveIdle /\ SelectIdle
    /\ ClassifyIdle /\ ChunkIdle /\ FlowIdle
    /\ qMade \in SharedInstances
    /\ qSelf = qMade
    /\ qFrames \in [1..2 -> SharedCalls(qMade)]
    /\ qLog = [i \in 1..2 |-> <<>>]

\* request i is called and runs to its first await
SharedBegin(i) ==
    /\ qFrames[i].pc = "start"
    /\ LET f == Begin(qSelf, qFrames[i])
       IN  /\ qFrames' = [qFrames EXCEPT ![i] = f]
           /\ qSelf' = InstanceAfter(qSelf, f)
    /\ UNCHANGED <<qMade, qLog, exceptShared>>

\* the call request i awaits answers, and the request runs to its next await
SharedResume(i) ==
    /\ \E reply \in AwaitChoices(qFrames[i]) :
        LET f == Resume(qSelf, qFrames[i], reply)
        IN  /\ qFrames' = [qFrames EXCEPT ![i] = f]
            /\ qSelf' = InstanceAfter(qSelf, f)
            /\ qLog' = [qLog EXCEPT ![i] = Append(@, reply)]
    /\ UNCHANGED <<qMade, exceptShared>>

NextShared == \E i \in 1..2 : SharedBegin(i) \/ SharedResume(i)

SpecShared == InitShared /\ [][NextShared]_vars

(***************************************************************************)
(* SpecChunk: one call of _chunk_section on a section of up to MaxParas    *)
(* paragraphs, one action per pass of the loop over the paragraphs.        *)
(***************************************************************************)
InitChunk ==
    /\ AllocIdle /\ FilterIdle /\ RerankIdle /\ RetrieveIdle /\ SharedIdle
    /\ ClassifyIdle /\ SelectIdle /\ FlowIdle
    /\ kMaxTokens \in 2..MaxChunkTokens
    /\ \E n \in 1..MaxParas : kParas \in [1..n -> 1..MaxParaTokens]
    /\ kSection \in JoinedAtLeast(kParas)..JoinedAtMost(kParas)
    /\ kNext = 0
    /\ kCurrent = <<>>
    /\ kTokens = 0
    /\ kChunks = <<>>
    /\ kPc = "call"

\* the section fits: it is returned as the only chunk
ChunkWhole ==
    /\ kPc = "call"
    /\ KeptWhole(kSection, kMaxTokens)
    /\ kChunks' = <<[i \in 1..Len(kParas) |-> i]>>
    /\ kPc' = "done"
    /\ UNCHANGED <<kMaxTokens, kParas, kSection, kNext, kCurrent, kTokens,
                   exceptChunk>>

\* the section does not fit: it is split into paragraphs and the loop starts
ChunkSplit ==
    /\ kPc = "call"
    /\ ~KeptWhole(kSection, kMaxTokens)
    /\ kNext' = 1
    /\ kPc' = "loop"
    /\ UNCHANGED <<kMaxTokens, kParas, kSection, kCurrent, kTokens, kChunks,
                   exceptChunk>>

\* a pass of the loop that adds the paragraph to the current chunk
ChunkAppend ==
    /\ kPc = "loop" /\ kNext <= Len(kParas)
    /\ ~ChunkIsFull(kTokens, kParas[kNext], kMaxTokens, kCurrent)
    /\ kCurrent' = Append(kCurrent, kNext)
    /\ kTokens' = kTokens + kParas[kNext]
    /\ kNext' = kNext + 1
    /\ UNCHANGED <<kMaxTokens, kParas, kSection, kChunks, kPc, exceptChunk>>

\* a pass of the loop that closes the current chunk, starts the next one
\* with the paragraphs carried over and adds the paragraph to it
ChunkCloseAndAppend ==
    /\ kPc = "loop" /\ kNext <= Len(kParas)
    /\ ChunkIsFull(kTokens, kParas[kNext], kMaxTokens, kCurrent)
    /\ kChunks' = Append(kChunks, kCurrent)
    /\ kCurrent' = Append(Overlap(kCurrent), kNext)
    /\ kTokens' = ParaTokens(kParas, Overlap(kCurrent)) + kParas[kNext]
    /\ kNext' = kNext + 1
    /\ UNCHANGED <<kMaxTokens, kParas, kSection, kPc, exceptChunk>>

\* after the loop: "if current_chunk", the last chunk is added
ChunkReturn ==
    /\ kPc = "loop" /\ kNext > Len(kParas)
    /\ kChunks' = IF kCurrent # <<>> THEN Append(kChunks, kCurrent) ELSE kChunks
    /\ kPc' = "done"
    /\ UNCHANGED <<kMaxTokens, kParas, kSection, kNext, kCurrent, kTokens,
                   exceptChunk>>

NextChunk ==
    ChunkWhole \/ ChunkSplit \/ ChunkAppend \/ ChunkCloseAndAppend
        \/ ChunkReturn

SpecChunk == InitChunk /\ [][NextChunk]_vars

(***************************************************************************)
(* The flow simulation of server/app/api/main.py.  flow_simulations is the *)
(* module's dictionary, keyed by simulation id; an id is the pair of its   *)
(* prefix and the clock second it was built in.  Every request is one      *)
(* entry of requests: its handler, then the background task that the       *)
(* server starts once the response has gone out.  processingTime is        *)
(* carried in tenths of a second; of current_node_details only the type   *)
(* is carried, of metrics only processingTime.                             *)
(***************************************************************************)
Nodes ==
    {"query", "classification", "retrieval", "reranking", "context",
     "prompt", "generation", "response"}

Connections ==
    {"query_classification", "classification_retrieval",
     "retrieval_reranking", "reranking_context", "context_prompt",
     "prompt_generation", "generation_response"}

\* a dictionary value and the value None
Dict(items) == [none |-> FALSE, items |-> items]

None == [none |-> TRUE, items |-> <<>>]

\* f"query_{int(time.time())}" and f"flow_{int(time.time())}"
SimulationId(prefix, second) == <<prefix, second>>

\* the entry simulate_flow_processing writes first
InitialEntry ==
    [status |-> "running",
     current_step |-> 0,
     nodes |-> Dict([n \in Nodes |-> "waiting"]),
     connections |-> Dict([c \in Connections |-> "waiting"]),
     metrics |-> Dict([processingTime |-> 0]),
     current_node_details |-> None]

\* one item of a step's "updates": a plain value, or a dictionary
Store(key, value) == [key |-> key, dict |-> FALSE, value |-> value]

Merge(key, value) == [key |-> key, dict |-> TRUE, value |-> value]

\* the "updates" of the sixteen steps, in the order the source lists them
steps ==
    <<
     <<Store("current_step", 1), Merge("nodes", [query |-> "active"]),
       Merge("metrics", [processingTime |-> 2]),
       Merge("current_node_details", [type |-> "input"])>>,
     <<Store("current_step", 2), Merge("nodes", [query |-> "completed"]),
       Merge("connections", [query_classification |-> "active"]),
       Merge("metrics", [processingTime |-> 5])>>,
     <<Store("current_step", 3),
       Merge("connections", [query_classification |-> "completed"]),
       Merge("nodes", [classification |-> "active"]),
       Merge("metrics", [processingTime |-> 8]),
       Merge("current_node_details", [type |-> "process"])>>,
     <<Store("current_step", 4),
       Merge("nodes", [classification |-> "completed"]),
       Merge("connections", [classification_retrieval |-> "active"]),
       Merge("metrics", [processingTime |-> 10])>>,
     <<Store("current_step", 5),
       Merge("connections", [classification_retrieval |-> "completed"]),
       Merge("nodes", [retrieval |-> "active"]),
       Merge("metrics", [processingTime |-> 15]),
       Merge("current_node_details", [type |-> "storage"])>>,
     <<Store("current_step", 6), Merge("nodes", [retrieval |-> "completed"]),
       Merge("connections", [retrieval_reranking |-> "active"]),
       Merge("metrics", [processingTime |-> 18])>>,
     <<Store("current_step", 7),
       Merge("connections", [retrieval_reranking |-> "completed"]),
       Merge("nodes", [reranking |-> "active"]),
       Merge("metrics", [processingTime |-> 23]),
       Merge("current_node_details", [type |-> "process"])>>,
     <<Store("current_step", 8), Merge("nodes", [reranking |-> "completed"]),
       Merge("connections", [reranking_context |-> "active"]),
       Merge("metrics", [processingTime |-> 25])>>,
     <<Store("current_step", 9),
       Merge("connections", [reranking_context |-> "completed"]),
       Merge("nodes", [context |-> "active"]),
       Merge("metrics", [processingTime |-> 30]),
       Merge("current_node_details", [type |-> "process"])>>,
     <<Store("current_step", 10), Merge("nodes", [context |-> "completed"]),
       Merge("connections", [context_prompt |-> "active"]),
       Merge("metrics", [processingTime |-> 32])>>,
     <<Store("current_step", 11),
       Merge("connections", [context_prompt |-> "completed"]),
       Merge("nodes", [prompt |-> "active"]),
       Merge("metrics", [processingTime |-> 35]),
       Merge("current_node_details", [type |-> "process"])>>,
     <<Store("current_step", 12), Merge("nodes", [prompt |-> "completed"]),
       Merge("connections", [prompt_generation |-> "active"]),
       Merge("metrics", [processingTime |-> 37])>>,
     <<Store("current_step", 13),
       Merge("connections", [prompt_generation |-> "completed"]),
       Merge("nodes", [generation |-> "active"]),
       Merge("metrics", [processingTime |-> 45]),
       Merge("current_node_details", [type |-> "api"])>>,
     <<Store("current_step", 14),
       Merge("nodes", [generation |-> "completed"]),
       Merge("connections", [generation_response |-> "active"]),
       Merge("metrics", [processingTime |-> 47])>>,
     <<Store("current_step", 15),
       Merge("connections", [generation_response |-> "completed"]),
       Merge("nodes", [response |-> "active"]),
       Merge("metrics", [processingTime |-> 50]),
       Merge("current_node_details", [type |-> "output"])>>,
     <<Store("current_step", 16), Merge("nodes", [response |-> "completed"]),
       Store("status", "completed"),
       Merge("current_node_details", [type |-> "output"])>>
    >>

\* dict.update: the keys of value are set, the others kept
DictUpdate(items, value) ==
    [x \in (DOMAIN items) \cup (DOMAIN value) |->
        IF x \in DOMAIN value THEN value[x] ELSE items[x]]

\* flow_simulations[simulation_id] = entry
PutSimulation(simulations, id, entry) ==
    [x \in (DOMAIN simulations) \cup {id} |->
        IF x = id THEN entry ELSE simulations[x]]

\* del flow_simulations[simulation_id]
DelSimulation(simulations, id) ==
    [x \in (DOMAIN simulations) \ {id} |-> simulations[x]]

\* one pass of "for key, value in step['updates'].items()": the entry is
\* looked up anew, a dictionary is merged into the one the entry holds and
\* anything else replaces the entry's value; a missing entry raises
\* KeyError and a merge into None raises AttributeError
ApplyUpdate(simulations, id, u) ==
    IF id \notin DOMAIN simulations
    THEN [simulations |-> simulations, raised |-> TRUE]
    ELSE LET entry == simulations[id]
         IN  IF u.dict /\ u.key \in DOMAIN entry
             THEN IF entry[u.key].none
                  THEN [simulations |-> simulations, raised |-> TRUE]
                  ELSE [simulations |->
                            [simulations EXCEPT ![id][u.key].items =
                                DictUpdate(@, u.value)],
                        raised |-> FALSE]
             ELSE [simulations |->
                       [simulations EXCEPT ![id][u.key] =
                           IF u.dict THEN Dict(u.value) ELSE u.value],
                   raised |-> FALSE]

RECURSIVE ApplyUpdates(_, _, _)
\* the updates of one step, in order, up to the first that raises
ApplyUpdates(simulations, id, updates) ==
    IF updates = <<>> THEN [simulations |-> simulations, raised |-> FALSE]
    ELSE LET r == ApplyUpdate(simulations, id, Head(updates))
         IN  IF r.raised THEN r
             ELSE ApplyUpdates(r.simulations, id, Tail(updates))

(***************************************************************************)
(* SpecFlow: up to MaxRequests requests to POST /query and POST            *)
(* /flow/start within seconds 0..MaxClock, their background tasks          *)
(* interleaved at their await points.  SpecFlowFair adds that a task that  *)
(* can run does run, as the event loop runs every callback that is ready.  *)
(***************************************************************************)
InitFlow ==
    /\ AllocIdle /\ FilterIdle /\ RerankIdle /\ RetrieveIdle /\ SharedIdle
    /\ SelectIdle /\ ClassifyIdle /\ ChunkIdle
    /\ clock = 0
    /\ requests = <<>>
    /\ flow_simulations = <<>>

\* time.time() reaches the next second
Tick ==
    /\ clock < MaxClock
    /\ clock' = clock + 1
    /\ UNCHANGED <<requests, flow_simulations>>
    /\ UNCHANGED exceptFlow

\* background_tasks.add_task(simulate_flow_processing, simulation_id=...)
AddTask(id) == Append(requests, [id |-> id, pc |-> "queued", step |-> 0])

\* POST /query up to its await: the id is built and the task queued
process_query ==
    /\ Len(requests) < MaxRequests
    /\ requests' = AddTask(SimulationId("query", clock))
    /\ UNCHANGED <<clock, flow_simulations>>
    /\ UNCHANGED exceptFlow

\* POST /flow/start: the id is built and the task queued
start_flow_simulation ==
    /\ Len(requests) < MaxRequests
    /\ requests' = AddTask(SimulationId("flow", clock))
    /\ UNCHANGED <<clock, flow_simulations>>
    /\ UNCHANGED exceptFlow

\* the response has gone out and the task starts: it writes the initial
\* entry and sleeps for the first step's delay
TaskStart(i) ==
    /\ i \in 1..Len(requests)
    /\ requests[i].pc = "queued"
    /\ flow_simulations' =
           PutSimulation(flow_simulations, requests[i].id, InitialEntry)
    /\ requests' = [requests EXCEPT ![i].pc = "sleeping", ![i].step = 1]
    /\ UNCHANGED clock
    /\ UNCHANGED exceptFlow

\* a sleep of the task is over: the next step's updates are applied, or,
\* after the last step and the ten minutes, the entry is removed if it is
\* still there; an exception ends the task where it is raised
TaskResume(i) ==
    /\ i \in 1..Len(requests)
    /\ requests[i].pc = "sleeping"
    /\ LET id == requests[i].id
           k == requests[i].step
       IN  IF k <= Len(steps)
           THEN LET r == ApplyUpdates(flow_simulations, id, steps[k])
                IN  /\ flow_simulations' = r.simulations
                    /\ requests' =
                           IF r.raised
                           THEN [requests EXCEPT ![i].pc = "raised"]
                           ELSE [requests EXCEPT ![i].step = k + 1]
           ELSE /\ flow_simulations' =
                       IF id \in DOMAIN flow_simulations
                       THEN DelSimulation(flow_simulations, id)
                       ELSE flow_simulations
                /\ requests' = [requests EXCEPT ![i].pc = "returned"]
    /\ UNCHANGED clock
    /\ UNCHANGED exceptFlow

NextFlow ==
    \/ Tick
    \/ process_query
    \/ start_flow_simulation
    \/ \E i \in 1..MaxRequests : TaskStart(i)
    \/ \E i \in 1..MaxRequests : TaskResume(i)

SpecFlow == InitFlow /\ [][NextFlow]_vars

SpecFlowFair ==
    /\ SpecFlow
    /\ \A i \in 1..MaxRequests :
           WF_vars(TaskStart(i)) /\ WF_vars(TaskResume(i))

(***************************************************************************)
(* Claims about the allocator (SpecAlloc).                                 *)
(***************************************************************************)
AllPositive(f) == \A s \in SourceSet : f[s] > 0

\* no source's allocation exceeds its content after the rounding adjustment
NoCapApplies == \A s \in SourceSet : FixedUp(aB, aPri, aT)[s] <= aT[s]

\* C1: the allocation _allocate_tokens returns never gives a source more
\* tokens than its content holds: a[s] <= t[s] for each of the five sources.
C1_AllocationWithinContent ==
    AllocReturned => \A s \in SourceSet : aOut.allocation[s] <= aT[s]

\* C2: when every source has positive weight and positive content and no
\* source's allocation exceeds its content, the returned allocation sums to
\* exactly B.
C2_SumIsBudgetWhenNoCap ==
    (aPc = "done" /\ AllPositive(aPri) /\ AllPositive(aT) /\ NoCapApplies)
        => /\ ~aOut.raised
           /\ SumOver(aOut.allocation, Sources) = aB

\* C2's case: such an input whose first pass falls short of B, so that the
\* sum rests on the rounding adjustment
C2_Witness ==
    /\ aPc = "done" /\ AllPositive(aPri) /\ AllPositive(aT) /\ NoCapApplies
    /\ SumOver(FirstPass(aB, aPri, aT), Sources) < aB
    /\ SumOver(aOut.allocation, Sources) = aB

(***************************************************************************)
(* Claims about the relevance filters (SpecFilter).                        *)
(***************************************************************************)
\* a completion reply was received and parsed
FilterReplied == fPc = "done" /\ fCalls = 1

\* some comma-separated part of the trimmed reply is no integer
SomePartFails(reply) ==
    LET parts == Split(Strip(reply), ",")
    IN  \E i \in 1..Len(parts) : ~ParseInt(Strip(parts[i])).ok

\* C7: when the reply is not exactly "0" and some comma-separated part fails
\* integer conversion, either filter returns all input items, unchanged and
\* in input order, whatever was parsed before the bad part.
C7_ParseErrorKeepsAll ==
    (FilterReplied /\ Strip(fReply) # <<"0">> /\ SomePartFails(fReply))
        => fOut = fItems

\* C7's case: a valid index is parsed first, then a part fails
C7_Witness ==
    /\ FilterReplied /\ fKind = "chunks"
    /\ fReply = <<"1", ",", "x">>
    /\ Len(fItems) > 1
    /\ fOut = fItems

\* C8: when the trimmed reply is exactly "0", the guideline filter returns
\* the empty list whatever the size of its input, and the passage filter
\* returns the empty list for every input of more than 5 passages.
C8_ZeroReplyKeepsNothing ==
    (FilterReplied /\ Strip(fReply) = <<"0">>)
        => /\ fOut = <<>>
           /\ fKind = "chunks" => Len(fItems) > ChunkFilterSkip

\* C8's case: a reply that is "0" once trimmed, on a list that is filtered
C8_Witness ==
    /\ FilterReplied /\ fKind = "sections"
    /\ fReply = <<" ", "0", " ">>
    /\ Len(fItems) = MaxItems
    /\ fOut = <<>>

\* C9: _filter_relevant_chunks with 5 or fewer passages issues no completion
\* call and returns its input unchanged; with 6 or more passages it issues
\* exactly one completion call.
C9_ChunkFilterBoundary ==
    fKind = "chunks" =>
        /\ Len(fItems) <= 5 =>
                /\ fCalls = 0
                /\ fPc = "done" => fOut = fItems
        /\ Len(fItems) >= 6 =>
                /\ fPc = "call" => fCalls = 0
                /\ fPc \in {"await", "done"} => fCalls = 1

\* C9's case: the boundary, a list of exactly 5 passages returned as it is
C9_Witness ==
    /\ fKind = "chunks" /\ fPc = "done"
    /\ Len(fItems) = 5
    /\ fCalls = 0
    /\ fOut = fItems

(***************************************************************************)
(* Claims about the reranker (SpecRerank).                                 *)
(***************************************************************************)
\* the numerically parseable lines of the reply, in order
ParseableLines(reply) == ParseScores(Split(Strip(reply), "\n"))

\* C10: for every non-empty input and every reply, _rerank_results returns
\* a permutation of the input passages (same length, none dropped or
\* duplicated) in which the i-th input passage carries as rerank_score the
\* i-th parseable reply line, or 0 when there are fewer; further parseable
\* lines are ignored.
C10_RerankKeepsEveryPassage ==
    (rPc = "done" /\ rIn # <<>>) =>
        LET scores == ParseableLines(rReply)
        IN  /\ Len(rOut) = Len(rIn)
            /\ \A i \in 1..Len(rIn) :
                \E k \in 1..Len(rOut) :
                    /\ rOut[k].id = rIn[i].id
                    /\ rOut[k].similarity_score = rIn[i].similarity_score
                    /\ rOut[k].rerank_score =
                            IF i <= Len(scores) THEN scores[i] ELSE Float(0)
                    /\ \A j \in 1..Len(rOut) :
                        rOut[j].id = rIn[i].id => j = k

\* C10's case: two passages, one parseable line behind a line that is no
\* number: the second passage is kept, with score 0
C10_Witness ==
    /\ rPc = "done"
    /\ Len(rIn) = 2
    /\ rReply = <<"x", "\n", "7">>
    /\ Len(rOut) = 2
    /\ \E k \in 1..2 : rOut[k].id = 2 /\ rOut[k].rerank_score = Float(0)
    /\ \E k \in 1..2 : rOut[k].id = 1 /\ rOut[k].rerank_score = Float(70)

(***************************************************************************)
(* Claims about select_context (SpecSelect).                               *)
(***************************************************************************)
\* initial_tokens of the request, once the lists are filtered
RequestTokens == InitialTokens(sFiltered, sGuide)

\* every summarization reply, as received, is estimated at no more tokens
\* than the max_tokens it was asked with
RepliesWithinCap ==
    \A s \in SourceSet :
        sResult.blocks[s].llm =>
            CountTokens(sResult.blocks[s].raw) <= sAlloc[s]

\* C3: a source whose priority weight for the objective is 0 has an empty
\* block in the context select_context returns, whatever content is
\* available for it and whether or not the total exceeds the budget.
C3_ZeroWeightSourceExcluded ==
    sPc = "done" =>
        \A s \in SourceSet :
            GetPrioritiesByObjective(sResult.objective)[s] = 0
                => sResult.blocks[s].len = 0

\* C4: if every summarization reply is estimated at no more tokens than the
\* cap it was requested with, the total_tokens select_context returns never
\* exceeds max_total_tokens.
C4_TotalWithinBudget ==
    (sPc = "done" /\ RepliesWithinCap) => sResult.total_tokens <= sB

\* C4's case: a compressed context whose summaries use their caps to the
\* last token and whose total reaches the budget
C4_Witness ==
    /\ sPc = "done" /\ RepliesWithinCap
    /\ Len(sCalls.compress) >= 2
    /\ \A s \in Range(sCalls.compress) :
            CountTokens(sResult.blocks[s].raw) = sAlloc[s]
    /\ sResult.total_tokens = sB

\* C5: if the initial token counts sum to at most B, _compress_context
\* never calls the allocator, issues no summarization call, returns every
\* source's joined text unchanged and reports their sum as total_tokens.
C5_UnderBudgetUntouched ==
    (sPc \in {"component", "summarizing", "done", "raised"}
        /\ SumOver(RequestTokens, Sources) <= sB)
        => /\ sCalls.allocate = 0
           /\ sCalls.compress = <<>>
           /\ sPc = "done"
           /\ \A s \in SourceSet :
                sResult.blocks[s] = Text(SourceParts(s, sFiltered, sGuide))
           /\ sResult.total_tokens = SumOver(RequestTokens, Sources)

\* C5's case: texts that fill the budget exactly, two sources holding text
C5_Witness ==
    /\ sPc = "done"
    /\ SumOver(RequestTokens, Sources) = sB
    /\ Cardinality({s \in SourceSet : sResult.blocks[s].len > 0}) >= 2
    /\ sCalls.allocate = 0
    /\ sResult.total_tokens = sB

\* C6: the objective in the result of select_context is always one of
\* informative, hypothesis, benchmark, objectives: an unrecognized objective
\* given by the caller is normalized to informative.
C6_ObjectiveIsCategory ==
    sPc = "done" => sResult.objective \in Objectives

(***************************************************************************)
(* Claims about retrieve (SpecRetrieve).                                   *)
(***************************************************************************)
\* C11: when vector recall yields 0 hits, retrieve returns the empty list
\* and no chat-completion call is issued during the request; only the
\* embedding call and the index query happen.
C11_NoHitsNoCompletion ==
    (tPc = "done" /\ tHits = <<>>) =>
        /\ tOut = <<>>
        /\ tCalls = [embedding |-> 1, query |-> 1, parent |-> 0,
                     completion |-> 0, failed |-> <<>>]

\* C11's case: a request that ended on an empty recall
C11_Witness ==
    /\ tPc = "done"
    /\ tHits = <<>>
    /\ tCalls.query = 1
    /\ tOut = <<>>

\* the table of included sources, row by row
TableRow ==
    [informative |-> {"chunks", "product_guidelines"},
     hypothesis |->
        {"chunks", "product_guidelines", "design_guidelines", "benchmarks"},
     benchmark |->
        {"chunks", "product_guidelines", "design_guidelines", "benchmarks"},
     objectives |-> {"chunks", "product_guidelines", "team_objectives"}]

ExpectedRow(objective) ==
    IF objective \in Objectives THEN TableRow[objective]
    ELSE TableRow["informative"]

\* C12: _select_relevant_sources returns, for each of the four objectives,
\* exactly the row of the table, and for any other objective the row of
\* informative; with a repository, the guideline types select_context
\* fetches are those of the row.
C12_SelectionFollowsTable ==
    (sPc \notin {"idle", "start", "classify"}) =>
        /\ {s \in SourceSet : SelectRelevantSources(sObjective)[s]}
                = ExpectedRow(sObjective)
        /\ (sPc = "done" /\ sHasRepo) =>
                Range(sCalls.fetch) =
                    {GuidelineType[g] :
                        g \in ExpectedRow(sObjective) \cap GuidelineSet}

\* C12's case: an objective that is none of the four, served as informative
C12_Witness ==
    /\ sPc = "done"
    /\ sHasRepo
    /\ sObjective \notin Objectives
    /\ sCalls.fetch = <<"product">>

(***************************************************************************)
(* Further claims about the allocator (SpecAlloc).                         *)
(***************************************************************************)
IsLargeRequest ==
    /\ aB = 6000
    /\ aPri = PriorityMatrix["informative"]
    /\ aT = [chunks |-> 8000, product_guidelines |-> 500,
             design_guidelines |-> 0, benchmarks |-> 0, team_objectives |-> 0]

\* an allocation that gives chunks and product_guidelines, and nothing else
ChunksAndProduct(chunks, product) ==
    [chunks |-> chunks, product_guidelines |-> product,
     design_guidelines |-> 0, benchmarks |-> 0, team_objectives |-> 0]

\* C13: for B = 6000, the informative priorities and initial counts of 8000
\* chunk tokens and 500 product tokens, the first pass gives 5100 / 900 with
\* no rounding adjustment, product is clipped to 500, its excess of 400 goes
\* to chunks, and the result is chunks 5500, product 500, others 0.
C13_LargeRequestAllocation ==
    (aPc = "done" /\ IsLargeRequest) =>
        /\ FirstPass(aB, aPri, aT) = ChunksAndProduct(5100, 900)
        /\ FixedUp(aB, aPri, aT) = FirstPass(aB, aPri, aT)
        /\ FixedUp(aB, aPri, aT)["chunks"] <= aT["chunks"]
        /\ FixedUp(aB, aPri, aT)["product_guidelines"]
                - aT["product_guidelines"] = 400
        /\ ~aOut.raised
        /\ aOut.allocation = ChunksAndProduct(5500, 500)
        /\ SumOver(aOut.allocation, Sources) = 6000

\* C13's case: the allocator has returned for that request
C13_Witness ==
    /\ aPc = "done"
    /\ IsLargeRequest
    /\ aOut.allocation["product_guidelines"] = 500

(***************************************************************************)
(* Claims about requests sharing an instance (SpecShared).                 *)
(***************************************************************************)
\* the frame of a request as it was called
AsCalled(f) ==
    IF f.kind = "retrieve" THEN RetrieveFrame(f.rerank_top_k)
    ELSE SelectFrame(f.objective_arg, f.chunks)

RECURSIVE Replay(_, _, _)
Replay(self, f, replies) ==
    IF replies = <<>> THEN f
    ELSE Replay(self, Resume(self, f, Head(replies)), Tail(replies))

\* the frame of a request run with no other request on the instance, given
\* the replies its awaits receive
RunAlone(self, called, replies) == Replay(self, Begin(self, called), replies)

\* C14: requests interleaved at their awaits on one instance are
\* independent: each is, at every await and at its return, where it would be
\* had it run alone on the instance as constructed with the same arguments
\* and the same replies.
C14_RequestsIndependent ==
    qFrames # <<>> =>
        \A i \in 1..2 :
            qFrames[i].pc # "start" =>
                qFrames[i] = RunAlone(qMade, AsCalled(qFrames[i]), qLog[i])

\* C14's case: one select_context call has returned a compressed context
\* while the other, called with other arguments, awaits a summarization
C14_Witness ==
    /\ qFrames # <<>>
    /\ qFrames[1].pc = "done"
    /\ qFrames[1].kind = "select"
    /\ \E s \in SourceSet : qFrames[1].result.blocks[s].llm
    /\ qFrames[2].pc = "summarizing"
    /\ qFrames[2].chunks # qFrames[1].chunks
    /\ Len(qLog[2]) >= 2

(***************************************************************************)
(* Claims about either kind of request (SpecCore).                         *)
(***************************************************************************)
\* C15: once an external call made by select_context or retrieve has
\* raised, the request has failed: the call is not issued again, no further
\* call is issued, and no context or passage list is returned.
C15_CallErrorPropagates ==
    /\ sCalls.failed # <<>> =>
        /\ sPc = "failed"
        /\ Len(sCalls.failed) = 1
        /\ [sCalls EXCEPT !.failed = <<>>] = sCalls.failed[1].issued
        /\ sResult = NoContext
    /\ tCalls.failed # <<>> =>
        /\ tPc = "failed"
        /\ Len(tCalls.failed) = 1
        /\ [tCalls EXCEPT !.failed = <<>>] = tCalls.failed[1].issued
        /\ tOut = <<>>

\* C15's case: a summarization call raised after one source had already
\* been summarized
C15_Witness ==
    /\ sPc = "failed"
    /\ sCalls.failed # <<>>
    /\ sCalls.failed[1].call = "summarizing"
    /\ Len(sCalls.compress) = 2
    /\ \E s \in SourceSet : sBlocks[s].llm

(***************************************************************************)
(* Further claims about select_context (SpecSelect).                       *)
(***************************************************************************)
\* C16: on both paths of _compress_context, total_tokens is the sum over the
\* five returned blocks of floor(len(block) / 4); it is not taken from the
\* requested allocation.
C16_TotalFromReturnedBlocks ==
    sPc = "done" =>
        sResult.total_tokens =
            SumOver([s \in SourceSet |-> sResult.blocks[s].len \div 4],
                    Sources)

\* C16's case: a compressed context whose total differs from the allocation
C16_Witness ==
    /\ sPc = "done"
    /\ sCalls.compress # <<>>
    /\ \E s \in SourceSet :
        /\ sResult.blocks[s].llm
        /\ sResult.blocks[s].len \div 4 # sAlloc[s]
    /\ sResult.total_tokens # SumOver(sAlloc, Sources)

(***************************************************************************)
(* Claims about _classify_intent (SpecClassify).                           *)
(***************************************************************************)
\* the reply trimmed and lower-cased
Normalized(reply) == Lower(Strip(reply))

\* C17: _classify_intent returns one of the four objectives for every
\* reply: the category whose token the trimmed, lower-cased reply equals,
\* and informative when it equals none.
C17_ClassifyAlwaysCategory ==
    cPc = "done" =>
        /\ cOut \in Objectives
        /\ \A o \in Objectives :
            IntentChars[o] = Normalized(cReply) => cOut = o
        /\ (\A o \in Objectives : IntentChars[o] # Normalized(cReply))
                => cOut = "informative"

\* C17's case: a capitalized token between blanks is recognized
C17_Witness ==
    /\ cPc = "done"
    /\ cReply = <<" ">> \o Capitalized(IntentChars["benchmark"]) \o <<"\n">>
    /\ cOut = "benchmark"

\* the guideline sources the Source Selector leaves out for the objective
LeftOut ==
    {g \in GuidelineSet : ~SelectRelevantSources(sObjective)[g]}

\* C18: a guideline source the Source Selector marks as not included is
\* never fetched from the repository and never filtered, and its block in
\* the context select_context returns is the empty string.
C18_ExcludedSourceUntouched ==
    (sPc \notin {"idle", "start", "classify"}) =>
        /\ \A g \in LeftOut :
            /\ GuidelineType[g] \notin Range(sCalls.fetch)
            /\ sGuide[g] = <<>>
            /\ sPc = "done" => sResult.blocks[g] = EmptyText
        /\ sCalls.filter_sections <= Len(sCalls.fetch)
        /\ Len(sCalls.fetch) <= Cardinality(GuidelineSet \ LeftOut)

\* C18's case: an informative request on a selector with a repository: the
\* product guidelines are fetched, filtered and returned, the others are not
C18_Witness ==
    /\ sPc = "done"
    /\ sHasRepo
    /\ sObjective = "informative"
    /\ sCalls.fetch = <<"product">>
    /\ sCalls.filter_sections = 1
    /\ sResult.blocks["product_guidelines"].len > 0
    /\ sResult.blocks["design_guidelines"] = EmptyText

(***************************************************************************)
(* Claims about the cap loop of the allocator (SpecAlloc).                 *)
(***************************************************************************)
\* where a source stands in the order the loop follows
Position(s) == CHOOSE i \in 1..Len(Sources) : Sources[i] = s

\* the sources whose allocation exceeds their content after the fix-up
OverAfterFixUp == {s \in SourceSet : FixedUp(aB, aPri, aT)[s] > aT[s]}

Clipped == ClippedSources(aB, aPri, aT)

\* C19, as stated: the sources that get clipped are exactly those whose
\* allocation after the rounding fix-up exceeded their content; a source
\* within its cap after the fix-up is never clipped afterwards.
C19_ClippedIffOverAfterFixUp ==
    AllocReturned => Clipped = OverAfterFixUp

\* C19, amended: the loop visits each source once, in order, and clips it
\* when the allocation it holds at that visit exceeds its content.  Every
\* source over its content after the fix-up is clipped; a source within its
\* content after the fix-up is clipped too when an earlier clip has pushed
\* it over before its visit; a clipped source ends at exactly its content;
\* and a source pushed over after its visit is not clipped again.
C19_ClippedWhenReachedOver ==
    AllocReturned =>
        /\ OverAfterFixUp \subseteq Clipped
        /\ \A s \in Clipped \ OverAfterFixUp :
            \E e \in Clipped : Position(e) < Position(s)
        /\ \A s \in Clipped : aOut.allocation[s] = aT[s]
        /\ \A s \in SourceSet \ Clipped :
            aOut.allocation[s] > aT[s] =>
                \E c \in Clipped : Position(c) > Position(s)

\* C19's case: a source within its content after the fix-up is clipped
C19_Witness ==
    /\ AllocReturned
    /\ \E s \in Clipped \ OverAfterFixUp :
        /\ FixedUp(aB, aPri, aT)[s] < aT[s]
        /\ aOut.allocation[s] = aT[s]

\* the first source the loop clips
FirstClipped(s) ==
    /\ s \in OverAfterFixUp
    /\ \A e \in OverAfterFixUp : Position(s) <= Position(e)

\* C20: when a source is clipped with excess E and candidate set C, each
\* candidate c receives exactly floor(E * p[c] / sum of p over C), whatever
\* the order of the candidates, and the remainder goes to the candidate of
\* largest weight.  Stated for the first clip of a call.
C20_SharesProportionalToWeights ==
    AllocReturned =>
        \A s \in SourceSet :
            FirstClipped(s) =>
                LET fixed == FixedUp(aB, aPri, aT)
                    E == fixed[s] - aT[s]
                    C == Candidates(s, [fixed EXCEPT ![s] = aT[s]], aT)
                    total == SumOver(aPri, C)
                    share == [c \in SourceSet |-> (E * aPri[c]) \div total]
                    remainder == E - SumOver(share, C)
                    after == ClipSource(s, fixed, aPri, aT).allocation
                IN  (C # <<>> /\ total > 0) =>
                        \A c \in Range(C) :
                            after[c] =
                                fixed[c] + share[c] +
                                (IF c = MaxKey(C, aPri) THEN remainder
                                 ELSE 0)

(***************************************************************************)
(* Claims about the compression path of select_context (SpecSelect).       *)
(***************************************************************************)
\* the summarization calls issued for source s, as positions in the record
CallsFor(s) == {i \in 1..Len(sCalls.compress) : sCalls.compress[i] = s}

\* the sources _compress_context has dealt with so far
Handled == {Sources[k] : k \in 1..(IF sK > Len(Sources) THEN Len(Sources) ELSE sK - 1)}

Scored ==
    ScoreResults(tHits, PadScores(ParseableLines(tReply), Len(tHits)))

\* x belongs before y in descending order of combined_score, equal scores in
\* recall order
Precedes(x, y) ==
    \/ FloatLess(y.combined_score, x.combined_score)
    \/ /\ ~x.combined_score.nan /\ ~y.combined_score.nan
       /\ x.combined_score.val = y.combined_score.val
       /\ x.id < y.id

\* C22: retrieve returns exactly the first min(n, rerank_top_k) passages of
\* the n recalled passages ordered by descending combined_score =
\* 0.3*similarity_score + 0.7*(rerank_score/10), passages with equal
\* combined_score in recall order: no returned passage belongs before one
\* returned ahead of it, and no passage left out belongs before a returned
\* one.
C22_TopKInDescendingOrder ==
    (tPc = "done" /\ tCalls.completion = 1) =>
        /\ Len(tOut) = (IF Len(tHits) < tTopK THEN Len(tHits) ELSE tTopK)
        /\ \A i \in 1..Len(tOut) :
            /\ tOut[i] \in Range(Scored)
            /\ \A j \in (i + 1)..Len(tOut) :
                tOut[i].id # tOut[j].id /\ ~Precedes(tOut[j], tOut[i])
            /\ \A x \in Range(Scored) :
                (\A j \in 1..Len(tOut) : tOut[j].id # x.id)
                    => ~Precedes(x, tOut[i])

(***************************************************************************)
(* Claims about the indices of a relevance-filter reply (SpecFilter).      *)
(***************************************************************************)
\* the integers of a reply whose comma-separated parts are all integers
ReplyNumbers(reply) ==
    LET parts == Split(Strip(reply), ",")
    IN  [i \in 1..Len(parts) |-> ParseInt(Strip(parts[i])).val]

\* the numbers of the reply that are 1-based positions of the input list
PositionsNamed(reply, n) ==
    LET InList(k) == 1 <= k /\ k <= n
    IN  SelectSeq(ReplyNumbers(reply), InList)

\* C23: for a reply consisting only of comma-separated integers the filter
\* returns only items of the input: each 1-based index k with
\* 1 <= k <= len(input) selects input[k-1], and every index outside that
\* range (0, negative, larger than the list) is dropped without error and
\* without the keep-all fallback.
C23_OutOfRangeIndexDropped ==
    (FilterReplied /\ ~SomePartFails(fReply)) =>
        LET named == PositionsNamed(fReply, Len(fItems))
        IN  fOut = [i \in 1..Len(named) |-> fItems[named[i]]]

\* C23's case: a reply that names an index beyond the list ahead of a
\* position of the list; only the item at that position is returned
C23_Witness ==
    /\ FilterReplied /\ ~SomePartFails(fReply)
    /\ Len(fItems) >= 2
    /\ Len(ReplyNumbers(fReply)) = 2
    /\ ReplyNumbers(fReply)[1] > Len(fItems)
    /\ ReplyNumbers(fReply)[2] = 1
    /\ fOut = <<fItems[1]>>

(***************************************************************************)
(* Claims about the scores _rerank_results assigns (SpecRerank).           *)
(***************************************************************************)
\* C24: every passage returned by _rerank_results has a rerank_score in the
\* range 0 to 10 inclusive (0 to 100 tenths), for every reply the language
\* model may produce, numeric lines below 0 or above 10 included.
C24_RerankScoreInRange ==
    rPc = "done" =>
        \A k \in 1..Len(rOut) :
            /\ ~rOut[k].rerank_score.nan
            /\ 0 <= rOut[k].rerank_score.val
            /\ rOut[k].rerank_score.val <= 100

(***************************************************************************)
(* Claims about the chunker (SpecChunk).                                   *)
(***************************************************************************)
\* C25: every chunk produced by _chunk_section contains at most max_tokens
\* tokens, whatever the section and its paragraphs: counted by its
\* paragraphs alone, without the separators between them, no chunk holds
\* more than max_tokens.
C25_ChunkWithinMaxTokens ==
    \A c \in 1..Len(kChunks) :
        ParaTokens(kParas, kChunks[c]) <= kMaxTokens

(***************************************************************************)
(* Claims about the allocator as select_context reaches it (SpecSelect).   *)
(***************************************************************************)
\* C26: whenever _allocate_tokens is reached through select_context (the
\* initial token counts sum to more than B) it returns an allocation
\* without raising, for each objective's priority vector and every content
\* profile: no sum of weights it divides by is zero.
C26_AllocatorNeverRaises ==
    sCalls.allocate = 1 =>
        /\ sPc # "raised"
        /\ ~AllocateTokens(sB, GetPrioritiesByObjective(sObjective),
                           RequestTokens).raised

(***************************************************************************)
(* Claims about the budget the allocator hands out (SpecAlloc).            *)
(***************************************************************************)
\* the request is one _compress_context passes on: the counts exceed B
OverBudget == SumOver(aT, Sources) > aB

\* C27: whenever the initial token counts sum to more than B and
\* _allocate_tokens returns, the returned allocation sums to exactly B and
\* every entry is a non-negative integer, however many sources are clipped:
\* each clipping step finds a candidate and hands it the whole excess.
C27_OverBudgetSumIsBudget ==
    (AllocReturned /\ OverBudget) =>
        /\ SumOver(aOut.allocation, Sources) = aB
        /\ \A s \in SourceSet : aOut.allocation[s] \in Nat

\* C27's case: a request over the budget in which two sources are clipped
\* and a share is rounded down, the sum still being B
C27_Witness ==
    /\ AllocReturned /\ OverBudget
    /\ Cardinality(Clipped) >= 2
    /\ \E s \in SourceSet : aOut.allocation[s] > aT[s]
    /\ SumOver(aOut.allocation, Sources) = aB

\* C28: the list a filter returns is a sub-list of its input: no position of
\* the input appears in it more than once and it is no longer than the input,
\* whatever the reply repeats.
C28_FilterOutputIsSubList ==
    FilterReplied =>
        /\ Len(fOut) <= Len(fItems)
        /\ \A i, j \in 1..Len(fOut) : fOut[i] = fOut[j] => i = j

(***************************************************************************)
(* Claims about the flow simulations (SpecFlow, SpecFlowFair).             *)
(***************************************************************************)
\* the entry of a simulation is finished: status completed, step 16, every
\* node and every connection completed
Finished(entry) ==
    /\ entry.status = "completed"
    /\ entry.current_step = Len(steps)
    /\ \A n \in Nodes : entry.nodes.items[n] = "completed"
    /\ \A c \in Connections : entry.connections.items[c] = "completed"

\* the nodes and connections of an entry that are active
ActiveParts(entry) ==
    {n \in Nodes : entry.nodes.items[n] = "active"}
        \cup {c \in Connections : entry.connections.items[c] = "active"}

\* request i is the only one that uses its id, and no later one can: the
\* clock second the id was built in is over
OnlyUser(i) ==
    /\ i \in 1..Len(requests)
    /\ \A j \in 1..Len(requests) : requests[j].id = requests[i].id => j = i
    /\ clock > requests[i].id[2]

\* C29: for every id in flow_simulations, current_step never decreases and
\* status never goes from completed back to running, however the tasks of
\* concurrent POST /query and POST /flow/start requests interleave, requests
\* of one clock second included.
C29_StepAndStatusNeverGoBack ==
    [][\A id \in (DOMAIN flow_simulations) \cap (DOMAIN flow_simulations') :
          /\ flow_simulations'[id].current_step
                 >= flow_simulations[id].current_step
          /\ ~(/\ flow_simulations[id].status = "completed"
               /\ flow_simulations'[id].status = "running")]_vars

\* the task of request i is between two of its steps and alone on its id
Stepping(i) == OnlyUser(i) /\ requests[i].pc = "sleeping"

\* the simulation of request i is finished
Completed(i) ==
    /\ i \in 1..Len(requests)
    /\ requests[i].id \in DOMAIN flow_simulations
    /\ Finished(flow_simulations[requests[i].id])

\* C30: when every ready task is run, a simulation that is the only one
\* using its id ends with status completed, current_step 16 and all nodes
\* and connections completed; its current_step goes up one at a time and at
\* most one node or connection is active at any moment.
C30_OnlySimulationCompletes ==
    /\ \A i \in 1..MaxRequests : Stepping(i) ~> Completed(i)
    /\ [][\A i \in 1..MaxRequests :
              Stepping(i) =>
                  flow_simulations'[requests[i].id].current_step
                      \in {flow_simulations[requests[i].id].current_step,
                           flow_simulations[requests[i].id].current_step + 1}
         ]_vars
    /\ [](\A i \in 1..MaxRequests :
              Stepping(i) =>
                  Cardinality(ActiveParts(
                      flow_simulations[requests[i].id])) <= 1)

=============================================================================
